---- MODULE Spec2Model ----
(***************************************************************************)
(* Change detection of MSNotifierBot: the stock checker and the expiration *)
(* checker compare every fetched product with the record kept for it in a  *)
(* persisted store and decide whether an alert is due.                     *)
(*                                                                         *)
(* Python values are modelled as follows.                                  *)
(*   Optional[x]   None is <<>>, a present value x is <<x>>.               *)
(*   dict          a function; d.get(k, default) is Get(d, k, default).    *)
(*   datetime      an integer number of clock ticks, TicksPerDay per day.  *)
(*   alert text    a record of the fields the text is formatted from.      *)
(* The 'last_check' timestamp and the stats counters of the checkers are   *)
(* written but never read by any decision and are left out.                *)
(*                                                                         *)
(* Every run saves its store, and CacheManager.load drops a store only when *)
(* its file is older than CACHE_RESET_DAYS (30 days).  The runs of StockRun  *)
(* and ExpRun follow each other within that age, so a run loads what the run *)
(* before saved; ExpRunLoaded has the load with the age of the file.         *)
(*                                                                         *)
(* A text is the sequence of its characters; TelegramNotifier.send and the   *)
(* send of Main.py are computed on such texts, and the transport fails on    *)
(* the call the environment chooses.                                         *)
(*                                                                         *)
(* CheckerScheduler.run is one coroutine: sched_pc is the call it awaits and *)
(* each action is that call with the way it ends (returned, raised, ran into *)
(* the deadline of the cycle, cancelled), chosen by the environment.  A      *)
(* checker run can be interrupted only where it awaits, in notifier.send.    *)
(* The values of a fetched row may fail to be numbers; Python then raises    *)
(* TypeError where it compares them.  The file of a CacheManager is modelled *)
(* with its modification time and with content that may have been damaged.   *)
(***************************************************************************)
EXTENDS Integers, Sequences, FiniteSets, TLC

VARIABLES
    stock_store,    \* the persisted stock store (the CacheManager file of StockChecker)
    stock_before,   \* the stock store as the last stock run loaded it
    stock_sent,     \* the notifier.send calls of the last stock run, in order
    products,       \* the product list handed to the last checker run
    hist,           \* the stock runs that evaluated TrackedId, since its first sighting
    legacy_store,   \* the stock store of the single-file variant (Main.py)
    legacy_before,  \* that store as the last run of the variant loaded it
    legacy_sent,    \* the notifier.send calls of the last run of the variant
    exp_store,      \* the persisted expiration store (the file of ExpirationChecker)
    exp_before,     \* the expiration store as the last expiration run loaded it
    exp_sent,       \* the notifier.send calls of the last expiration run, in order
    now,            \* datetime.now() of the last run, in ticks
    alert_days,     \* ExpirationChecker.alert_days
    unchanged,      \* ids whose product was the same in the last two cycles
    same_days,      \* ids of unchanged whose days_left was the same in both cycles
    exp_saved,      \* the modification time of the expiration store's file; None: no file
    exp_hist,       \* the expiration runs that evaluated TrackedId
    tg_limit,       \* TelegramNotifier.message_limit, config.TG_MESSAGE_LIMIT
    tg_call,        \* a send call: header, messages, and which bot.send_message fails
    tg_sent,        \* the texts the transport delivered for the call, in order
    tg_result,      \* how TelegramNotifier.send ended: "True", "False" or "raised"
    legacy_tg_sent,     \* the texts delivered by the notifier of Main.py for the call
    legacy_tg_result,   \* how the send of Main.py ended: "None" (it returns nothing)
    sched_pc,       \* where CheckerScheduler.run is: the call it awaits, or "exited"
    sched_running,  \* CheckerScheduler._running
    sched_cycle,    \* the number of cycles run() has begun
    sched_steps,    \* the calls run() has awaited since its last fetch, with how each ended
    sched_rows,     \* the rows the API held when run() last fetched
    sched_products, \* the products of the last fetch that run() hands to the checkers
    stock_io,       \* the notifier.send and cache_manager.save calls of the last stock run
    exp_io,         \* the same calls of the last expiration run
    stock_memory,   \* the cache dict of the last stock run when the run ended
    exp_memory,     \* the cache dict of the last expiration run when the run ended
    cache_file,     \* the file of a CacheManager: whether it exists, its mtime, its content
    cache_loaded,   \* when the last call on the CacheManager was a load: the file it
                    \* found, what it returned and whether it raised
    cache_clock,    \* datetime.now() at the last call on the CacheManager
    pace_calls,     \* the notifier.send calls one checker run is about to make
    pace_trace,     \* what that run handed to the transport, and where it slept
    dlv_fails,      \* for each of those send calls, which bot.send_message fails (0: none)
    dlv_log,        \* what the run did with them: each send's texts and result, the save
    fetch_rows,     \* the rows the API holds when fetch_all_products is called
    fetch_plan,     \* for each attempt of that call, the request that fails (0: none)
    fetch_out,      \* how the call ended: raised or returned, its list, its attempts
    phone_cache,    \* the names in CacheManager.cache_data['counterparties']
    reg_chat,       \* the handlers of chat messages: where each is, its number, its requests
    reg_batch,      \* process_batch: where it is in its batch, what it skipped and requested
    reg_success     \* per number, the create_counterparty calls that returned True

stock_vars == <<stock_store, stock_before, stock_sent>>

legacy_vars == <<legacy_store, legacy_before, legacy_sent>>

exp_vars == <<exp_store, exp_before, exp_sent>>

exp_run_vars == <<exp_saved, exp_hist>>

tg_vars == <<tg_limit, tg_call, tg_sent, tg_result, legacy_tg_sent, legacy_tg_result>>

sched_vars == <<sched_pc, sched_running, sched_cycle, sched_steps, sched_rows,
                sched_products, stock_io, exp_io, stock_memory, exp_memory>>

file_vars == <<cache_file, cache_loaded, cache_clock>>

pace_vars == <<pace_calls, pace_trace>>

dlv_vars == <<dlv_fails, dlv_log>>

fetch_vars == <<fetch_rows, fetch_plan, fetch_out>>

reg_vars == <<phone_cache, reg_chat, reg_batch, reg_success>>

io_vars == <<dlv_vars, fetch_vars, reg_vars>>

run_vars == <<sched_vars, file_vars, pace_vars, io_vars>>

vars == <<stock_vars, legacy_vars, exp_vars, products, hist, now, alert_days,
          unchanged, same_days, exp_run_vars, tg_vars, run_vars>>

\* ------------------------------------------------------------------ bounds

\* The number of evaluated runs hist records.
MaxRuns == 4

\* The last tick of the clock in the expiration runs.
MaxNow == 22

\* The last tick of the clock in the cycles that run both checkers.
MaxCycleNow == 9

\* The resolution of the clock: a day is this many ticks.
TicksPerDay == 2

\* The number of alerts of a send call.
MaxAlerts == 3

\* The number of cycles CheckerScheduler.run begins.
MaxCycles == 2

\* The requests of one attempt of fetch_all_products that may fail.
FailableRequests == 3

\* The "limit" of an assortment request (500 in the request parameters): the rows
\* of one page.
PageLimit == 2

\* ------------------------------------------------------------ Python values

None == <<>>

Some(x) == <<x>>

EmptyDict == <<>>

Get(d, k, default) ==
    IF k \in DOMAIN d THEN d[k] ELSE default

Put(d, k, v) ==
    [x \in (DOMAIN d) \cup {k} |-> IF x = k THEN v ELSE d[x]]

\* ---------------------------------------------------------------- entities

\* needs_stock_check with the test for None only.
needs_stock_check_not_none(p) ==
    p.min_balance # None

needs_stock_check(p) ==
    p.min_balance # None /\ p.min_balance[1] > 0

\* ------------------------------------------------------------ stock checker

create_zero_stock_alert(p) ==
    [kind |-> "zero", id |-> p.id, stock |-> p.stock, min_balance |-> p.min_balance[1]]

create_min_balance_alert(p) ==
    [kind |-> "min", id |-> p.id, stock |-> p.stock, min_balance |-> p.min_balance[1]]

\* StockDecision with the zero_reported flag ignored.
StockDecision_zero_every_run(p, cached_data) ==
    IF p.stock <= 0
    THEN Some(create_zero_stock_alert(p))
    ELSE IF p.stock <= p.min_balance[1]
              /\ (~Get(cached_data, "below_min_reported", FALSE)
                  \/ Get(cached_data, "last_stock", Some(p.stock))[1] > p.min_balance[1])
         THEN Some(create_min_balance_alert(p))
         ELSE None

\* StockDecision without the "rose above the minimum and fell again" test.
StockDecision_no_last_stock(p, cached_data) ==
    IF p.stock <= 0
    THEN IF ~Get(cached_data, "zero_reported", FALSE)
         THEN Some(create_zero_stock_alert(p))
         ELSE None
    ELSE IF p.stock <= p.min_balance[1] /\ ~Get(cached_data, "below_min_reported", FALSE)
         THEN Some(create_min_balance_alert(p))
         ELSE None

\* StockDecision with the two rules in the wrong order: the below-minimum rule
\* is tried first.
StockDecision_min_for_zero(p, cached_data) ==
    IF p.stock <= p.min_balance[1]
       /\ (~Get(cached_data, "below_min_reported", FALSE)
           \/ Get(cached_data, "last_stock", Some(p.stock))[1] > p.min_balance[1])
    THEN Some(create_min_balance_alert(p))
    ELSE IF p.stock <= 0 /\ ~Get(cached_data, "zero_reported", FALSE)
         THEN Some(create_zero_stock_alert(p))
         ELSE None

StockDecision(p, cached_data) ==
    LET current_stock == p.stock
        min_balance   == p.min_balance[1]
        is_zero       == current_stock <= 0
        is_below_min  == current_stock <= min_balance
        was_below_min == Get(cached_data, "below_min_reported", FALSE)
        last_stock    == Get(cached_data, "last_stock", None)
    IN  IF is_zero
        THEN IF ~Get(cached_data, "zero_reported", FALSE)
             THEN Some(create_zero_stock_alert(p))
             ELSE None
        ELSE IF is_below_min
             THEN IF ~was_below_min \/ (last_stock # None /\ last_stock[1] > min_balance)
                  THEN Some(create_min_balance_alert(p))
                  ELSE None
             ELSE None

\* StockRecord whose zero_reported stays set while the quantity is at or under the
\* threshold.
StockRecord_zero_until_above_min(p) ==
    [below_min_reported |-> p.stock <= p.min_balance[1],
     zero_reported      |-> p.stock <= p.min_balance[1],
     last_stock         |-> Some(p.stock)]

\* StockRecord that never records zero_reported.
StockRecord_zero_unset(p) ==
    [below_min_reported |-> p.stock <= p.min_balance[1],
     zero_reported      |-> FALSE,
     last_stock         |-> Some(p.stock)]

StockRecord(p) ==
    [below_min_reported |-> p.stock <= p.min_balance[1],
     zero_reported      |-> p.stock <= 0,
     last_stock         |-> Some(p.stock)]

\* StockCheckProduct writing the record only when an alert fired.
StockCheckProduct_write_on_alert(p, cache) ==
    LET a == StockDecision(p, Get(cache, p.id, EmptyDict))
    IN  [alert |-> a,
         cache |-> IF a # None THEN Put(cache, p.id, StockRecord(p)) ELSE cache]

StockCheckProduct(p, cache) ==
    [alert |-> StockDecision(p, Get(cache, p.id, EmptyDict)),
     cache |-> Put(cache, p.id, StockRecord(p))]

\* alerts_by_group: a defaultdict(list), which keeps the order in which its keys
\* were first used; modelled as the sequence of its items.
GroupIndex(abg, g) ==
    IF \E i \in 1..Len(abg) : abg[i].group_path = g
    THEN CHOOSE i \in 1..Len(abg) : abg[i].group_path = g
    ELSE 0

\* AppendAlert without the grouping: every alert starts a list of its own.
AppendAlert_no_grouping(abg, g, a) ==
    Append(abg, [group_path |-> g, alerts |-> <<a>>])

AppendAlert(abg, g, a) ==
    LET i == GroupIndex(abg, g)
    IN  IF i = 0
        THEN Append(abg, [group_path |-> g, alerts |-> <<a>>])
        ELSE [abg EXCEPT ![i].alerts = Append(@, a)]

RECURSIVE StockLoop(_, _, _, _)
StockLoop(ps, i, cache, abg) ==
    IF i > Len(ps)
    THEN [cache |-> cache, alerts_by_group |-> abg]
    ELSE IF ~needs_stock_check(ps[i])
         THEN StockLoop(ps, i + 1, cache, abg)
         ELSE LET r == StockCheckProduct(ps[i], cache)
              IN  StockLoop(ps, i + 1, r.cache,
                            IF r.alert # None
                            THEN AppendAlert(abg, ps[i].group_path, r.alert[1])
                            ELSE abg)

\* StockProcess with a store that creates an empty record for every id it is
\* asked about (a defaultdict).
StockProcess_record_for_all(ps, store) ==
    LET r == StockLoop(ps, 1, store, <<>>)
        seen == {ps[i].id : i \in 1..Len(ps)}
    IN  [r EXCEPT !.cache = [id \in (DOMAIN r.cache) \cup seen |->
                                Get(r.cache, id, EmptyDict)]]

StockProcess(ps, store) ==
    StockLoop(ps, 1, store, <<>>)

\* ------------------------------------------- stock checker, Main.py variant

LegacyAlert(p) ==
    [kind |-> "min", id |-> p.id, stock |-> p.stock, min_balance |-> p.min_balance[1]]

LegacyShouldAlert(p, cached) ==
    LET was_below == Get(cached, "was_below_min", FALSE)
        now_below == p.stock <= p.min_balance[1]
    IN  \/ ~was_below /\ now_below
        \/ was_below /\ now_below /\ Some(p.stock) # Get(cached, "last_stock", None)

Remove(d, k) ==
    [x \in (DOMAIN d) \ {k} |-> d[x]]

RECURSIVE LegacyStockLoop(_, _, _, _)
LegacyStockLoop(ps, i, cache, abg) ==
    IF i > Len(ps)
    THEN [cache |-> cache, alerts_by_group |-> abg]
    ELSE LET p == ps[i]
         IN  IF p.min_balance = None
             THEN LegacyStockLoop(ps, i + 1,
                                  IF p.id \in DOMAIN cache THEN Remove(cache, p.id) ELSE cache,
                                  abg)
             ELSE IF p.min_balance[1] > 0
                  THEN LegacyStockLoop(ps, i + 1,
                           Put(cache, p.id,
                               [last_stock    |-> Some(p.stock),
                                was_below_min |-> p.stock <= p.min_balance[1]]),
                           IF LegacyShouldAlert(p, Get(cache, p.id, EmptyDict))
                           THEN AppendAlert(abg, p.group_path, LegacyAlert(p))
                           ELSE abg)
                  ELSE LegacyStockLoop(ps, i + 1, cache, abg)

LegacyStockProcess(ps, store) ==
    LegacyStockLoop(ps, 1, store, <<>>)

\* ------------------------------------------------------- expiration checker

needs_expiration_check(p) ==
    p.expiration_date # None

\* (product.expiration_date - datetime.now()).days: timedelta.days rounds down.
DaysLeft(date, t) ==
    (date - t) \div TicksPerDay

\* expiration_date.strftime('%Y-%m-%d'): the day, without the time of day.
DateStr(date) ==
    date \div TicksPerDay

create_expired_alert(p) ==
    [kind |-> "expired", id |-> p.id, date |-> DateStr(p.expiration_date[1])]

create_near_expired_alert(p, days_left) ==
    [kind |-> "near", id |-> p.id, date |-> DateStr(p.expiration_date[1]),
     days_left |-> days_left, emoji |-> IF days_left <= 3 THEN "red" ELSE "yellow"]

DefaultAlertDays == 7

\* ExpCheckProduct with the was_expired flag written but never read.
ExpCheckProduct_expired_every_run(p, cache, t, days) ==
    LET str == DateStr(p.expiration_date[1])
        cached0 == Get(cache, p.id, EmptyDict)
        cached_data == IF "expiration_date" \in DOMAIN cached0
                          /\ cached0["expiration_date"] = str
                       THEN cached0 ELSE [expiration_date |-> str]
    IN  IF DaysLeft(p.expiration_date[1], t) < 0
        THEN [alert |-> Some(create_expired_alert(p)), is_expired |-> TRUE,
              cache |-> Put(cache, p.id, Put(cached_data, "was_expired", TRUE))]
        ELSE [alert |-> None, is_expired |-> FALSE, cache |-> Put(cache, p.id, cached_data)]

\* ExpCheckProduct with the was_notified_3_days flag written but never read.
ExpCheckProduct_near_every_run(p, cache, t, days) ==
    LET days_left == DaysLeft(p.expiration_date[1], t)
        expiration_date_str == DateStr(p.expiration_date[1])
        cached0 == Get(cache, p.id, EmptyDict)
        changed == ~("expiration_date" \in DOMAIN cached0
                     /\ cached0["expiration_date"] = expiration_date_str)
        cached_data == IF changed THEN [expiration_date |-> expiration_date_str]
                       ELSE cached0
        cache1 == IF changed THEN Put(cache, p.id, cached_data) ELSE cache
        is_near_expired == 0 <= days_left /\ days_left <= days
    IN  IF days_left < 0 /\ ~Get(cached_data, "was_expired", FALSE)
        THEN [alert |-> Some(create_expired_alert(p)), is_expired |-> TRUE,
              cache |-> Put(cache1, p.id, Put(cached_data, "was_expired", TRUE))]
        ELSE IF is_near_expired /\ days_left >= 7
                /\ ~Get(cached_data, "was_notified_7_days", FALSE)
        THEN [alert |-> Some(create_near_expired_alert(p, days_left)), is_expired |-> FALSE,
              cache |-> Put(cache1, p.id, Put(cached_data, "was_notified_7_days", TRUE))]
        ELSE IF is_near_expired /\ days_left <= 3
        THEN [alert |-> Some(create_near_expired_alert(p, days_left)), is_expired |-> FALSE,
              cache |-> Put(cache1, p.id, Put(cached_data, "was_notified_3_days", TRUE))]
        ELSE [alert |-> None, is_expired |-> FALSE, cache |-> cache1]

\* ExpCheckProduct that, when the date of the record differs, replaces the date
\* and keeps the flags of the record.
ExpCheckProduct_keep_flags(p, cache, t, days) ==
    LET days_left == DaysLeft(p.expiration_date[1], t)
        expiration_date_str == DateStr(p.expiration_date[1])
        cached0 == Get(cache, p.id, EmptyDict)
        changed == ~("expiration_date" \in DOMAIN cached0
                     /\ cached0["expiration_date"] = expiration_date_str)
        cached_data == IF changed THEN Put(cached0, "expiration_date", expiration_date_str)
                       ELSE cached0
        cache1 == IF changed THEN Put(cache, p.id, cached_data) ELSE cache
        is_near_expired == 0 <= days_left /\ days_left <= days
    IN  IF days_left < 0 /\ ~Get(cached_data, "was_expired", FALSE)
        THEN [alert |-> Some(create_expired_alert(p)), is_expired |-> TRUE,
              cache |-> Put(cache1, p.id, Put(cached_data, "was_expired", TRUE))]
        ELSE IF is_near_expired /\ days_left >= 7
                /\ ~Get(cached_data, "was_notified_7_days", FALSE)
        THEN [alert |-> Some(create_near_expired_alert(p, days_left)), is_expired |-> FALSE,
              cache |-> Put(cache1, p.id, Put(cached_data, "was_notified_7_days", TRUE))]
        ELSE IF is_near_expired /\ days_left <= 3
                /\ ~Get(cached_data, "was_notified_3_days", FALSE)
        THEN [alert |-> Some(create_near_expired_alert(p, days_left)), is_expired |-> FALSE,
              cache |-> Put(cache1, p.id, Put(cached_data, "was_notified_3_days", TRUE))]
        ELSE [alert |-> None, is_expired |-> FALSE, cache |-> cache1]

\* ExpCheckProduct whose alert writes a record with the date and the flag of that
\* alert only, in place of {**cached_data, flag: True}.
ExpCheckProduct_replace_flags(p, cache, t, days) ==
    LET days_left == DaysLeft(p.expiration_date[1], t)
        expiration_date_str == DateStr(p.expiration_date[1])
        cached0 == Get(cache, p.id, EmptyDict)
        changed == ~("expiration_date" \in DOMAIN cached0
                     /\ cached0["expiration_date"] = expiration_date_str)
        cached_data == IF changed THEN [expiration_date |-> expiration_date_str]
                       ELSE cached0
        fresh == [expiration_date |-> expiration_date_str]
        cache1 == IF changed THEN Put(cache, p.id, cached_data) ELSE cache
        is_near_expired == 0 <= days_left /\ days_left <= days
    IN  IF days_left < 0 /\ ~Get(cached_data, "was_expired", FALSE)
        THEN [alert |-> Some(create_expired_alert(p)), is_expired |-> TRUE,
              cache |-> Put(cache1, p.id, Put(fresh, "was_expired", TRUE))]
        ELSE IF is_near_expired /\ days_left >= 7
                /\ ~Get(cached_data, "was_notified_7_days", FALSE)
        THEN [alert |-> Some(create_near_expired_alert(p, days_left)), is_expired |-> FALSE,
              cache |-> Put(cache1, p.id, Put(fresh, "was_notified_7_days", TRUE))]
        ELSE IF is_near_expired /\ days_left <= 3
                /\ ~Get(cached_data, "was_notified_3_days", FALSE)
        THEN [alert |-> Some(create_near_expired_alert(p, days_left)), is_expired |-> FALSE,
              cache |-> Put(cache1, p.id, Put(fresh, "was_notified_3_days", TRUE))]
        ELSE [alert |-> None, is_expired |-> FALSE, cache |-> cache1]

\* ExpCheckProduct with one flag for both near-expiration tiers: the 3-day tier
\* does not fire once the 7-day tier has.
ExpCheckProduct_one_near_alert(p, cache, t, days) ==
    LET days_left == DaysLeft(p.expiration_date[1], t)
        expiration_date_str == DateStr(p.expiration_date[1])
        cached0 == Get(cache, p.id, EmptyDict)
        changed == ~("expiration_date" \in DOMAIN cached0
                     /\ cached0["expiration_date"] = expiration_date_str)
        cached_data == IF changed THEN [expiration_date |-> expiration_date_str]
                       ELSE cached0
        cache1 == IF changed THEN Put(cache, p.id, cached_data) ELSE cache
        is_near_expired == 0 <= days_left /\ days_left <= days
    IN  IF days_left < 0 /\ ~Get(cached_data, "was_expired", FALSE)
        THEN [alert |-> Some(create_expired_alert(p)), is_expired |-> TRUE,
              cache |-> Put(cache1, p.id, Put(cached_data, "was_expired", TRUE))]
        ELSE IF is_near_expired /\ (days_left >= 7 \/ days_left <= 3)
                /\ ~Get(cached_data, "was_notified_7_days", FALSE)
        THEN [alert |-> Some(create_near_expired_alert(p, days_left)), is_expired |-> FALSE,
              cache |-> Put(cache1, p.id, Put(cached_data, "was_notified_7_days", TRUE))]
        ELSE [alert |-> None, is_expired |-> FALSE, cache |-> cache1]

ExpCheckProduct(p, cache, t, days) ==
    LET days_left == DaysLeft(p.expiration_date[1], t)
        expiration_date_str == DateStr(p.expiration_date[1])
        cached0 == Get(cache, p.id, EmptyDict)
        changed == ~("expiration_date" \in DOMAIN cached0
                     /\ cached0["expiration_date"] = expiration_date_str)
        cached_data == IF changed THEN [expiration_date |-> expiration_date_str]
                       ELSE cached0
        cache1 == IF changed THEN Put(cache, p.id, cached_data) ELSE cache
        is_near_expired == 0 <= days_left /\ days_left <= days
    IN  IF days_left < 0 /\ ~Get(cached_data, "was_expired", FALSE)
        THEN [alert |-> Some(create_expired_alert(p)), is_expired |-> TRUE,
              cache |-> Put(cache1, p.id, Put(cached_data, "was_expired", TRUE))]
        ELSE IF is_near_expired /\ days_left >= 7
                /\ ~Get(cached_data, "was_notified_7_days", FALSE)
        THEN [alert |-> Some(create_near_expired_alert(p, days_left)), is_expired |-> FALSE,
              cache |-> Put(cache1, p.id, Put(cached_data, "was_notified_7_days", TRUE))]
        ELSE IF is_near_expired /\ days_left <= 3
                /\ ~Get(cached_data, "was_notified_3_days", FALSE)
        THEN [alert |-> Some(create_near_expired_alert(p, days_left)), is_expired |-> FALSE,
              cache |-> Put(cache1, p.id, Put(cached_data, "was_notified_3_days", TRUE))]
        ELSE [alert |-> None, is_expired |-> FALSE, cache |-> cache1]

RECURSIVE ExpLoop(_, _, _, _, _, _)
ExpLoop(ps, i, cache, abg, t, days) ==
    IF i > Len(ps)
    THEN [cache |-> cache, alerts_by_group |-> abg]
    ELSE IF ~needs_expiration_check(ps[i])
         THEN ExpLoop(ps, i + 1, cache, abg, t, days)
         ELSE LET r == ExpCheckProduct(ps[i], cache, t, days)
              IN  ExpLoop(ps, i + 1, r.cache,
                          IF r.alert # None
                          THEN AppendAlert(abg, ps[i].group_path, r.alert[1])
                          ELSE abg,
                          t, days)

ExpProcess(ps, store, t, days) ==
    ExpLoop(ps, 1, store, <<>>, t, days)

\* ---------------------------------------------------------------- notifier

\* A text is the sequence of its characters; len is Len, + is \o.

\* Settings.TG_MESSAGE_LIMIT, the default of TelegramNotifier.message_limit.
TG_MESSAGE_LIMIT == 4096

\* Main.py: BATCH_SIZE, the number of alerts of one batch of a send call.
BATCH_SIZE == 10

BlankLine == <<"\n", "\n">>

NewLine == <<"\n">>

\* sep.join(texts)
RECURSIVE Join(_, _)
Join(texts, sep) ==
    IF texts = <<>> THEN <<>>
    ELSE IF Len(texts) = 1 THEN texts[1]
    ELSE texts[1] \o sep \o Join(Tail(texts), sep)

IsSpace(c) ==
    c \in {"\n", " "}

RECURSIVE LStrip(_)
LStrip(text) ==
    IF text # <<>> /\ IsSpace(Head(text)) THEN LStrip(Tail(text)) ELSE text

RECURSIVE RStrip(_)
RStrip(text) ==
    IF text # <<>> /\ IsSpace(text[Len(text)])
    THEN RStrip(SubSeq(text, 1, Len(text) - 1))
    ELSE text

\* str.strip(): without the whitespace at both ends.
Strip(text) ==
    LStrip(RStrip(text))

StartsAt(text, sep, i) ==
    /\ i + Len(sep) - 1 <= Len(text)
    /\ SubSeq(text, i, i + Len(sep) - 1) = sep

\* str.split(sep): the pieces between the occurrences of sep, found from the left.
RECURSIVE SplitFrom(_, _, _, _)
SplitFrom(text, sep, i, piece) ==
    IF i > Len(text) THEN <<piece>>
    ELSE IF StartsAt(text, sep, i)
         THEN <<piece>> \o SplitFrom(text, sep, i + Len(sep), <<>>)
         ELSE SplitFrom(text, sep, i + 1, Append(piece, text[i]))

Split(text, sep) ==
    SplitFrom(text, sep, 1, <<>>)

\* The calls of bot.send_message with texts, in order, of which the call number
\* fail_at raises (0: none does).  When an exception ends the caller (stop), the
\* texts after the failed one are not sent; a caller that catches it goes on.
Transport(texts, fail_at, stop) ==
    LET failed == fail_at \in 1..Len(texts)
    IN  [delivered |-> IF ~failed THEN texts
                       ELSE IF stop THEN SubSeq(texts, 1, fail_at - 1)
                       ELSE SubSeq(texts, 1, fail_at - 1)
                                \o SubSeq(texts, fail_at + 1, Len(texts)),
         raised |-> failed]

\* TelegramNotifier._send_batched: the texts it gives to _send_message.
RECURSIVE BatchLoop(_, _, _, _, _)
BatchLoop(messages, i, current_message, out, limit) ==
    IF i > Len(messages)
    THEN IF Strip(current_message) # <<>>
         THEN Append(out, Strip(current_message))
         ELSE out
    ELSE LET msg == messages[i]
         IN  IF Len(current_message) + Len(msg) + 2 > limit
             THEN BatchLoop(messages, i + 1, msg \o BlankLine,
                            Append(out, Strip(current_message)), limit)
             ELSE BatchLoop(messages, i + 1, current_message \o msg \o BlankLine,
                            out, limit)

\* BatchLoop that drops the message it flushes the buffer for.
RECURSIVE BatchLoop_drop_on_flush(_, _, _, _, _)
BatchLoop_drop_on_flush(messages, i, current_message, out, limit) ==
    IF i > Len(messages)
    THEN IF Strip(current_message) # <<>>
         THEN Append(out, Strip(current_message))
         ELSE out
    ELSE LET msg == messages[i]
         IN  IF Len(current_message) + Len(msg) + 2 > limit
             THEN BatchLoop_drop_on_flush(messages, i + 1, <<>>,
                                          Append(out, Strip(current_message)), limit)
             ELSE BatchLoop_drop_on_flush(messages, i + 1,
                                          current_message \o msg \o BlankLine, out, limit)

send_batched_drop_on_flush(header, messages, limit) ==
    BatchLoop_drop_on_flush(messages, 1, header \o BlankLine, <<>>, limit)

\* BatchLoop that flushes only when the message with the next alert appended,
\* without a blank line after it, would be longer than the limit.
RECURSIVE BatchLoop_exact_fit(_, _, _, _, _)
BatchLoop_exact_fit(messages, i, current_message, out, limit) ==
    IF i > Len(messages)
    THEN IF Strip(current_message) # <<>>
         THEN Append(out, Strip(current_message))
         ELSE out
    ELSE LET msg == messages[i]
         IN  IF Len(current_message) + Len(msg) > limit
             THEN BatchLoop_exact_fit(messages, i + 1, msg \o BlankLine,
                                      Append(out, Strip(current_message)), limit)
             ELSE BatchLoop_exact_fit(messages, i + 1,
                                      current_message \o msg \o BlankLine, out, limit)

send_batched_exact_fit(header, messages, limit) ==
    BatchLoop_exact_fit(messages, 1, header \o BlankLine, <<>>, limit)

send_batched(header, messages, limit) ==
    BatchLoop(messages, 1, header \o BlankLine, <<>>, limit)

\* SendTexts that sends a single message only when it is shorter than the limit.
SendTexts_strict_limit(header, messages, limit) ==
    LET full_message == header \o BlankLine \o Join(messages, BlankLine)
    IN  IF Len(full_message) < limit
        THEN <<full_message>>
        ELSE send_batched(header, messages, limit)

\* The texts TelegramNotifier.send gives to _send_message.
SendTexts(header, messages, limit) ==
    LET full_message == header \o BlankLine \o Join(messages, BlankLine)
    IN  IF Len(full_message) <= limit
        THEN <<full_message>>
        ELSE send_batched(header, messages, limit)

\* send without the except clause: the exception of the transport leaves send.
send_no_except(header, messages, limit, fail_at) ==
    IF messages = <<>>
    THEN [sent |-> <<>>, result |-> "False"]
    ELSE LET r == Transport(SendTexts(header, messages, limit), fail_at, TRUE)
         IN  [sent |-> r.delivered,
              result |-> IF r.raised THEN "raised" ELSE "True"]

\* TelegramNotifier.send: False for no messages; otherwise the try block, True at
\* its end and False from the except clause.
send(header, messages, limit, fail_at) ==
    IF messages = <<>>
    THEN [sent |-> <<>>, result |-> "False"]
    ELSE LET r == Transport(SendTexts(header, messages, limit), fail_at, TRUE)
         IN  [sent |-> r.delivered,
              result |-> IF r.raised THEN "False" ELSE "True"]

\* Main.py, TelegramNotifier._split_message: the lines of a notification that is
\* longer than the limit, packed into parts.
RECURSIVE LinesLoop(_, _, _, _, _)
LinesLoop(lines, i, temp_part, parts, limit) ==
    IF i > Len(lines)
    THEN IF temp_part # <<>> THEN Append(parts, Strip(temp_part)) ELSE parts
    ELSE LET line == lines[i]
         IN  IF Len(temp_part) + Len(line) + 1 > limit /\ temp_part # <<>>
             THEN LinesLoop(lines, i + 1, line \o NewLine,
                            Append(parts, Strip(temp_part)), limit)
             ELSE LinesLoop(lines, i + 1, temp_part \o line \o NewLine, parts, limit)

\* Main.py, TelegramNotifier._split_message.
RECURSIVE SplitLoop(_, _, _, _, _)
SplitLoop(notifications, i, current_part, parts, limit) ==
    IF i > Len(notifications)
    THEN IF Strip(current_part) # <<>>
         THEN Append(parts, Strip(current_part))
         ELSE parts
    ELSE LET notification == notifications[i]
         IN  IF Len(current_part) + Len(notification) + 2 > limit
             THEN LET parts1 == IF current_part # <<>>
                                THEN Append(parts, Strip(current_part))
                                ELSE parts
                  IN  IF Len(notification) > limit
                      THEN SplitLoop(notifications, i + 1, <<>>,
                                     LinesLoop(Split(notification, NewLine), 1, <<>>,
                                               parts1, limit),
                                     limit)
                      ELSE SplitLoop(notifications, i + 1, notification \o BlankLine,
                                     parts1, limit)
             ELSE SplitLoop(notifications, i + 1,
                            current_part \o notification \o BlankLine, parts, limit)

split_message(message, limit) ==
    SplitLoop(Split(message, BlankLine), 1, <<>>, <<>>, limit)

\* Main.py, TelegramNotifier.send: the texts it gives to _send_safe, batch by batch.
RECURSIVE LegacyBatches(_, _, _, _)
LegacyBatches(header, alerts, batch_idx, limit) ==
    IF batch_idx >= Len(alerts) THEN <<>>
    ELSE LET last == IF batch_idx + BATCH_SIZE < Len(alerts)
                     THEN batch_idx + BATCH_SIZE ELSE Len(alerts)
             batch == SubSeq(alerts, batch_idx + 1, last)
             full_message == header \o BlankLine \o Join(batch, BlankLine)
         IN  (IF Len(full_message) <= limit
              THEN <<full_message>>
              ELSE split_message(full_message, limit))
                 \o LegacyBatches(header, alerts, batch_idx + BATCH_SIZE, limit)

\* Main.py, TelegramNotifier.send: _send_safe catches the exception of a failed
\* bot.send_message and the texts after it are still sent; send returns nothing.
LegacySend(header, alerts, limit, fail_at) ==
    [sent |-> Transport(LegacyBatches(header, alerts, 0, limit), fail_at, FALSE).delivered,
     result |-> "None"]

\* ------------------------------------------------------------ cache manager

\* Settings.CACHE_RESET_DAYS, the max_age_days of the checkers' CacheManager.
CACHE_RESET_DAYS == 30

\* CacheManager._is_expired at time t: the file was modified more than max_age ago.
CacheIsExpired(mtime, t) ==
    t - mtime > CACHE_RESET_DAYS * TicksPerDay

\* CacheManager.load at time t: {} when there is no file and when the file is too
\* old (the file is then removed), the saved records otherwise.
CacheLoad(mtime, data, t) ==
    IF mtime = None THEN EmptyDict
    ELSE IF CacheIsExpired(mtime[1], t) THEN EmptyDict
    ELSE data

\* The file of a CacheManager: whether it exists, its modification time, what
\* its content is ("json": what save wrote; "garbled": not JSON, such as a
\* truncated write; "denied": it cannot be opened) and the dict it holds.
NoFile ==
    [exists |-> FALSE, mtime |-> 0, kind |-> "json", data |-> EmptyDict]

\* load with the except clauses only around json.load of a well-formed file: a
\* file that cannot be decoded or opened makes load raise.
load_decode_error_raises(f, t) ==
    IF ~f.exists
    THEN [data |-> EmptyDict, file |-> f, raised |-> FALSE]
    ELSE IF CacheIsExpired(f.mtime, t)
         THEN [data |-> EmptyDict, file |-> NoFile, raised |-> FALSE]
         ELSE IF f.kind # "json"
              THEN [data |-> EmptyDict, file |-> f, raised |-> TRUE]
              ELSE [data |-> f.data, file |-> f, raised |-> FALSE]

\* load that keeps the file of a store it found too old.
load_keep_expired_file(f, t) ==
    IF ~f.exists
    THEN [data |-> EmptyDict, file |-> f, raised |-> FALSE]
    ELSE IF CacheIsExpired(f.mtime, t)
         THEN [data |-> EmptyDict, file |-> f, raised |-> FALSE]
         ELSE IF f.kind # "json"
              THEN [data |-> EmptyDict, file |-> f, raised |-> FALSE]
              ELSE [data |-> f.data, file |-> f, raised |-> FALSE]

\* CacheManager.load at time t: what it returns, what becomes of the file, and
\* whether an exception leaves it.  No file: {}.  Too old: unlink and {}.  A file
\* that json.load cannot decode or open cannot: the except clauses return {}.
load(f, t) ==
    IF ~f.exists
    THEN [data |-> EmptyDict, file |-> f, raised |-> FALSE]
    ELSE IF CacheIsExpired(f.mtime, t)
         THEN [data |-> EmptyDict, file |-> NoFile, raised |-> FALSE]
         ELSE IF f.kind # "json"
              THEN [data |-> EmptyDict, file |-> f, raised |-> FALSE]
              ELSE [data |-> f.data, file |-> f, raised |-> FALSE]

NotLoaded ==
    [called |-> FALSE, by |-> "none", raised |-> FALSE, data |-> EmptyDict,
     before |-> NoFile]

\* CacheManager.save at time t, when the write succeeds.
save(data, t) ==
    [exists |-> TRUE, mtime |-> t, kind |-> "json", data |-> data]

\* ------------------------------------------------- the calls of a checker run

\* What happens to one run of process from outside: the category sends for which
\* notifier.send returns False (its transport failed), the send during which the
\* run is interrupted (0: none) and by what ("cancel": CancelledError, "timeout":
\* the deadline of the cycle), and whether cache_manager.save fails ("no";
\* "refused": the file cannot be opened and stays as it was; "torn": the write
\* stops half way and leaves a file that is not JSON).
NoFaults ==
    [failed |-> {}, stop_at |-> 0, stop |-> "cancel", save_fails |-> "no"]

SendCall(g, result) ==
    [op |-> "send", group_path |-> g, result |-> result]

SaveCall(result) ==
    [op |-> "save", group_path |-> "", result |-> result]

\* The loop over alerts_by_group.items(): one awaited notifier.send per category,
\* whose result is not looked at.
RECURSIVE SendLoop(_, _, _, _)
SendLoop(abg, i, env, io) ==
    IF i > Len(abg)
    THEN [io |-> io, outcome |-> "ok"]
    ELSE IF env.stop_at = i
         THEN [io |-> Append(io, SendCall(abg[i].group_path, "interrupted")),
               outcome |-> env.stop]
         ELSE SendLoop(abg, i + 1, env,
                       Append(io, SendCall(abg[i].group_path,
                                           IF i \in env.failed THEN "False" ELSE "True")))

\* FinishRun whose interrupted run still writes what it computed to the store.
FinishRun_write_interrupted(r, store, env) ==
    LET s == SendLoop(r.alerts_by_group, 1, env, <<>>)
    IN  IF s.outcome # "ok"
        THEN [outcome |-> s.outcome, io |-> s.io, store |-> r.cache, memory |-> r.cache,
              alerts_by_group |-> r.alerts_by_group]
        ELSE IF env.save_fails = "no"
             THEN [outcome |-> "ok", io |-> Append(s.io, SaveCall("None")),
                   store |-> r.cache, memory |-> r.cache,
                   alerts_by_group |-> r.alerts_by_group]
             ELSE [outcome |-> "raise", io |-> Append(s.io, SaveCall("raised")),
                   store |-> IF env.save_fails = "torn" THEN EmptyDict ELSE store,
                   memory |-> r.cache, alerts_by_group |-> r.alerts_by_group]

\* FinishRun that saves the store as it was loaded when a send returned False.
FinishRun_rollback(r, store, env) ==
    LET s == SendLoop(r.alerts_by_group, 1, env, <<>>)
        kept == IF \E i \in 1..Len(s.io) : s.io[i].result = "False"
                THEN store ELSE r.cache
    IN  IF s.outcome # "ok"
        THEN [outcome |-> s.outcome, io |-> s.io, store |-> store, memory |-> r.cache,
              alerts_by_group |-> r.alerts_by_group]
        ELSE IF env.save_fails = "no"
             THEN [outcome |-> "ok", io |-> Append(s.io, SaveCall("None")),
                   store |-> kept, memory |-> r.cache,
                   alerts_by_group |-> r.alerts_by_group]
             ELSE [outcome |-> "raise", io |-> Append(s.io, SaveCall("raised")),
                   store |-> IF env.save_fails = "torn" THEN EmptyDict ELSE store,
                   memory |-> r.cache, alerts_by_group |-> r.alerts_by_group]

\* The end of process, from the cache and the alerts_by_group its loop computed:
\* the sends, then cache_manager.save(cache).  An interrupted send leaves process
\* at once; a failing save re-raises.  store is what the next load returns: a torn
\* file is read as {}.
FinishRun(r, store, env) ==
    LET s == SendLoop(r.alerts_by_group, 1, env, <<>>)
    IN  IF s.outcome # "ok"
        THEN [outcome |-> s.outcome, io |-> s.io, store |-> store, memory |-> r.cache,
              alerts_by_group |-> r.alerts_by_group]
        ELSE IF env.save_fails = "no"
             THEN [outcome |-> "ok", io |-> Append(s.io, SaveCall("None")),
                   store |-> r.cache, memory |-> r.cache,
                   alerts_by_group |-> r.alerts_by_group]
             ELSE [outcome |-> "raise", io |-> Append(s.io, SaveCall("raised")),
                   store |-> IF env.save_fails = "torn" THEN EmptyDict ELSE store,
                   memory |-> r.cache, alerts_by_group |-> r.alerts_by_group]

\* A value of the API's JSON: a number, or something that is not a number (a
\* string, null).
Num(n) ==
    [number |-> TRUE, value |-> n]

NotNum ==
    [number |-> FALSE, value |-> 0]

\* Product(...) of _fetch_products: the dataclass stores what it is given; a row
\* without 'id' raises KeyError and is left out.
BuildProduct(row) ==
    IF row.id = None
    THEN None
    ELSE Some([id |-> row.id[1], stock |-> row.stock, min_balance |-> row.minimumBalance,
               group_path |-> row.group_path, expiration_date |-> row.expiration_date])

RECURSIVE BuildProducts(_)
BuildProducts(rows) ==
    IF rows = <<>> THEN <<>>
    ELSE LET b == BuildProduct(Head(rows))
         IN  (IF b = None THEN <<>> ELSE b) \o BuildProducts(Tail(rows))

\* The product with its numbers as Python compares them.
AsNumbers(p) ==
    [id |-> p.id, stock |-> p.stock.value,
     min_balance |-> IF p.min_balance = None THEN None ELSE Some(p.min_balance[1].value),
     group_path |-> p.group_path, expiration_date |-> p.expiration_date]

AllAsNumbers(ps) ==
    [i \in 1..Len(ps) |-> AsNumbers(ps[i])]

\* The comparisons of needs_stock_check (min_balance > 0) and of _check_product
\* (current_stock <= 0) raise TypeError on a value that is not a number.
StockTypeError(p) ==
    /\ p.min_balance # None
    /\ \/ ~p.min_balance[1].number
       \/ p.min_balance[1].value > 0 /\ ~p.stock.number

FirstTypeError(ps) ==
    IF \E i \in 1..Len(ps) : StockTypeError(ps[i])
    THEN CHOOSE i \in 1..Len(ps) :
             /\ StockTypeError(ps[i])
             /\ \A j \in 1..(i - 1) : ~StockTypeError(ps[j])
    ELSE 0

\* process of the stock checker on the products of the scheduler.  The loop has no
\* except clause: a TypeError leaves process before any send and before the save.
StockCheckerRun(ps, store, env) ==
    LET k == FirstTypeError(ps)
    IN  IF k # 0
        THEN [outcome |-> "raise", io |-> <<>>, store |-> store,
              memory |-> StockProcess(AllAsNumbers(SubSeq(ps, 1, k - 1)), store).cache,
              alerts_by_group |-> <<>>]
        ELSE FinishRun(StockProcess(AllAsNumbers(ps), store), store, env)

\* process of the expiration checker on the products of the scheduler.
ExpCheckerRun(ps, store, t, days, env) ==
    FinishRun(ExpProcess(AllAsNumbers(ps), store, t, days), store, env)

\* ---------------------------------------------------------------- scheduler

\* MoyskladAPI.retry_count.
retry_count == 3

\* One attempt of fetch_all_products: the pages of the rows the API holds, as long
\* as a page is full; _make_request raises on the request fail_at (0: on none).
RECURSIVE FetchPages(_, _, _, _, _)
FetchPages(rows, offset, n, fail_at, fetched) ==
    IF n = fail_at
    THEN [raised |-> TRUE, products |-> fetched]
    ELSE LET last == IF offset + PageLimit < Len(rows) THEN offset + PageLimit ELSE Len(rows)
             page == SubSeq(rows, offset + 1, last)
         IN  IF Len(page) < PageLimit
             THEN [raised |-> FALSE, products |-> fetched \o page]
             ELSE FetchPages(rows, offset + Len(page), n + 1, fail_at, fetched \o page)

\* FetchAttempts that returns the rows it has when its last attempt fails.
RECURSIVE FetchAttempts_keep_partial(_, _, _)
FetchAttempts_keep_partial(rows, plan, attempt) ==
    LET r == FetchPages(rows, 0, 1, plan[attempt], <<>>)
    IN  IF ~r.raised
        THEN [raised |-> FALSE, products |-> r.products, attempts |-> attempt]
        ELSE IF attempt = retry_count
             THEN [raised |-> FALSE, products |-> r.products, attempts |-> attempt]
             ELSE FetchAttempts_keep_partial(rows, plan, attempt + 1)

\* FetchAttempts whose list is not emptied at the start of an attempt: the rows of
\* the failed attempts stay in front of the rows of the attempt that completes.
RECURSIVE FetchAttempts_carry_over(_, _, _)
FetchAttempts_carry_over(rows, plan, attempt) ==
    LET r == FetchPages(rows, 0, 1, plan[attempt], <<>>)
    IN  IF ~r.raised
        THEN [raised |-> FALSE, products |-> r.products, attempts |-> attempt]
        ELSE IF attempt = retry_count
             THEN [raised |-> TRUE, products |-> <<>>, attempts |-> attempt]
             ELSE LET rest == FetchAttempts_carry_over(rows, plan, attempt + 1)
                  IN  [rest EXCEPT !.products = IF rest.raised THEN <<>>
                                                ELSE r.products \o @]

\* The attempts of fetch_all_products: each starts with an empty list; the
\* exception of the last attempt is raised again.  plan[a] is the request on
\* which attempt a fails (an attempt whose request for the folders fails has
\* fetched no row, as one whose first page fails).  attempts is the number of
\* attempts made.
RECURSIVE FetchAttempts(_, _, _)
FetchAttempts(rows, plan, attempt) ==
    LET r == FetchPages(rows, 0, 1, plan[attempt], <<>>)
    IN  IF ~r.raised
        THEN [raised |-> FALSE, products |-> r.products, attempts |-> attempt]
        ELSE IF attempt = retry_count
             THEN [raised |-> TRUE, products |-> <<>>, attempts |-> attempt]
             ELSE FetchAttempts(rows, plan, attempt + 1)

fetch_all_products(rows, plan) ==
    FetchAttempts(rows, plan, 1)

\* CheckerScheduler._fetch_products: [] when fetch_all_products raised, otherwise
\* the products built from the rows.
fetch_products(rows, plan) ==
    LET r == fetch_all_products(rows, plan)
    IN  IF r.raised
        THEN [failed |-> TRUE, products |-> <<>>]
        ELSE [failed |-> FALSE, products |-> BuildProducts(r.products)]

\* AfterStep of a loop that does not look at _running: `while True`, and the
\* sleep after every cycle.
AfterStep_ignore_stop(step, outcome, running) ==
    IF outcome = "cancel"
    THEN "exited"
    ELSE IF outcome = "timeout" \/ step = "sleep"
         THEN "fetch"
         ELSE IF step = "fetch" /\ outcome = "ok"
              THEN "stock"
              ELSE IF step = "stock" /\ outcome = "ok"
                   THEN "expiration"
                   ELSE "sleep"

\* AfterStep with the two checks started in the other order.
AfterStep_expiration_first(step, outcome, running) ==
    IF outcome = "cancel"
    THEN "exited"
    ELSE IF outcome = "timeout" \/ step = "sleep"
         THEN IF running THEN "fetch" ELSE "exited"
         ELSE IF step = "fetch" /\ outcome = "ok"
              THEN "expiration"
              ELSE IF step = "expiration" /\ outcome = "ok"
                   THEN "stock"
                   ELSE IF running THEN "sleep" ELSE "exited"

\* AfterStep with the handler of Exception leaving the loop.
AfterStep_raise_exits(step, outcome, running) ==
    IF outcome = "cancel" \/ outcome = "raise"
    THEN "exited"
    ELSE IF outcome = "timeout" \/ step = "sleep"
         THEN IF running THEN "fetch" ELSE "exited"
         ELSE IF step = "fetch" /\ outcome = "ok"
              THEN "stock"
              ELSE IF step = "stock" /\ outcome = "ok"
                   THEN "expiration"
                   ELSE IF running THEN "sleep" ELSE "exited"

\* AfterStep with the checkers called whatever the fetch returned.
AfterStep_check_empty(step, outcome, running) ==
    IF outcome = "cancel"
    THEN "exited"
    ELSE IF outcome = "timeout" \/ step = "sleep"
         THEN IF running THEN "fetch" ELSE "exited"
         ELSE IF step = "fetch"
              THEN "stock"
              ELSE IF step = "stock" /\ outcome = "ok"
                   THEN "expiration"
                   ELSE IF running THEN "sleep" ELSE "exited"

\* The body of the while loop of CheckerScheduler.run: what run() awaits next
\* when the call it awaited (step) ended with outcome.  CancelledError: break, and
\* from the sleep it leaves run().  TimeoutError: continue, to the test of the
\* while loop.  After the fetch: the stock check when there are products.  After
\* the stock check: the expiration check.  Otherwise, an exception included, the
\* sleep when _running is still set.
AfterStep(step, outcome, running) ==
    IF outcome = "cancel"
    THEN "exited"
    ELSE IF outcome = "timeout" \/ step = "sleep"
         THEN IF running THEN "fetch" ELSE "exited"
         ELSE IF step = "fetch" /\ outcome = "ok"
              THEN "stock"
              ELSE IF step = "stock" /\ outcome = "ok"
                   THEN "expiration"
                   ELSE IF running THEN "sleep" ELSE "exited"

Step(step, outcome) ==
    [step |-> step, outcome |-> outcome]

\* ------------------------------------------------------------------- pacing

MessageEvent(text) ==
    [op |-> "send_message", text |-> text]

SleepEvent ==
    [op |-> "sleep", text |-> <<>>]

\* _send_batched with what it awaits: _send_message and, after a flush inside
\* the loop, asyncio.sleep(1).
RECURSIVE BatchEvents(_, _, _, _, _)
BatchEvents(messages, i, current_message, trace, limit) ==
    IF i > Len(messages)
    THEN IF Strip(current_message) # <<>>
         THEN Append(trace, MessageEvent(Strip(current_message)))
         ELSE trace
    ELSE LET msg == messages[i]
         IN  IF Len(current_message) + Len(msg) + 2 > limit
             THEN BatchEvents(messages, i + 1, msg \o BlankLine,
                              trace \o <<MessageEvent(Strip(current_message)), SleepEvent>>,
                              limit)
             ELSE BatchEvents(messages, i + 1, current_message \o msg \o BlankLine,
                              trace, limit)

\* TelegramNotifier.send with what it awaits, when the transport accepts every
\* message.
SendEvents(header, messages, limit) ==
    LET full_message == header \o BlankLine \o Join(messages, BlankLine)
    IN  IF messages = <<>>
        THEN <<>>
        ELSE IF Len(full_message) <= limit
             THEN <<MessageEvent(full_message)>>
             ELSE BatchEvents(messages, 1, header \o BlankLine, <<>>, limit)

\* The loop over alerts_by_group.items() of process: the sends of the categories
\* follow each other, nothing is awaited between them.
RECURSIVE ProcessEvents(_, _)
ProcessEvents(calls, limit) ==
    IF calls = <<>> THEN <<>>
    ELSE SendEvents(Head(calls).header, Head(calls).messages, limit)
             \o ProcessEvents(Tail(calls), limit)

\* ------------------------------------------- the sends of a run and its save

\* The loop over alerts_by_group.items() with what each send transmitted and
\* returned.  process has no try around the loop: an exception leaving send would
\* leave process.
RECURSIVE DeliverLoop(_, _, _, _, _)
DeliverLoop(calls, fails, i, limit, log) ==
    IF i > Len(calls)
    THEN [sends |-> log, outcome |-> "ok"]
    ELSE LET r == send(calls[i].header, calls[i].messages, limit, fails[i])
         IN  IF r.result = "raised"
             THEN [sends |-> Append(log, r), outcome |-> "raise"]
             ELSE DeliverLoop(calls, fails, i + 1, limit, Append(log, r))

\* The end of process: the sends of the categories, then cache_manager.save.
ProcessDelivery(calls, fails, limit) ==
    LET d == DeliverLoop(calls, fails, 1, limit, <<>>)
    IN  [called |-> TRUE, sends |-> d.sends, outcome |-> d.outcome,
         saved |-> d.outcome = "ok"]

NoDelivery ==
    [called |-> FALSE, sends |-> <<>>, outcome |-> "none", saved |-> FALSE]

NotFetched ==
    [called |-> FALSE, raised |-> FALSE, products |-> <<>>, attempts |-> 0]

\* --------------------------------------------------- customer registration

MAX_ATTEMPTS == 5

\* has_counterparty that never finds the name.
has_counterparty_never(cache, name) ==
    FALSE

\* CacheManager.has_counterparty: name in cache_data['counterparties'].
has_counterparty(cache, name) ==
    name \in cache

\* CacheManager.add_counterparty: the names after the call.
add_counterparty(cache, name) ==
    IF name # "" /\ name \notin cache THEN cache \cup {name} ELSE cache

\* A handler of a chat message: pc is "idle" (no message yet), "create" (it awaits
\* api.create_counterparty), "answer" (it awaits message.answer after a success),
\* "sleep" (it awaits asyncio.sleep before the next attempt) or "done"; hit
\* records that the number was in the cache when the message was received.
IdleChat ==
    [pc |-> "idle", phone |-> "", attempt |-> 0, requests |-> 0, hit |-> FALSE]

\* handle_phone_number, handle_text up to their first await: the cache is asked,
\* and for a number it does not have the first attempt calls create_counterparty.
ChatBegin(cache, phone) ==
    IF has_counterparty(cache, phone)
    THEN [pc |-> "done", phone |-> phone, attempt |-> 0, requests |-> 0,
          hit |-> phone \in cache]
    ELSE [pc |-> "create", phone |-> phone, attempt |-> 1, requests |-> 1,
          hit |-> phone \in cache]

\* The awaited create_counterparty ends: True answers after add_counterparty;
\* False goes to the next attempt at once; an exception sleeps before the next
\* attempt; after MAX_ATTEMPTS the handler gives up.
ChatAfterCreate(c, outcome) ==
    IF outcome = "True"
    THEN [c EXCEPT !.pc = "answer"]
    ELSE IF c.attempt >= MAX_ATTEMPTS
         THEN [c EXCEPT !.pc = "done"]
         ELSE IF outcome = "False"
              THEN [c EXCEPT !.attempt = @ + 1, !.requests = @ + 1]
              ELSE [c EXCEPT !.pc = "sleep"]

\* The awaited message.answer of a success ends: the handler returns, or the
\* exception of the answer is caught as one of the attempt.
ChatAfterAnswer(c, outcome) ==
    IF outcome = "ok" \/ c.attempt >= MAX_ATTEMPTS
    THEN [c EXCEPT !.pc = "done"]
    ELSE [c EXCEPT !.pc = "sleep"]

\* The loop of process_batch from position i on, up to its next await: the
\* numbers the cache has are skipped.
RECURSIVE Advance(_, _, _)
Advance(batch, i, cache) ==
    IF i > Len(batch) THEN i
    ELSE IF has_counterparty(cache, batch[i]) THEN Advance(batch, i + 1, cache)
         ELSE i

IdleBatch ==
    [pc |-> "idle", batch |-> <<>>, i |-> 0, skipped |-> {}, requested |-> {},
     hits |-> {}, success |-> {}, errors |-> {}]

\* process_batch goes on from position i with the cache as it is now: it skips,
\* and calls create_counterparty for the first number the cache does not have.
BatchGoOn(b, i, cache) ==
    LET j == Advance(b.batch, i, cache)
        passed == {b.batch[k] : k \in i..(j - 1)}
        here == IF j <= Len(b.batch) THEN {b.batch[j]} ELSE {}
    IN  [b EXCEPT !.pc = IF j <= Len(b.batch) THEN "create" ELSE "done",
                  !.i = j,
                  !.skipped = @ \cup passed,
                  !.requested = @ \cup here,
                  !.hits = @ \cup {ph \in passed \cup here : ph \in cache}]

\* ------------------------------------------------------------------ inputs

Ids == {"P1"}

TrackedId == "P1"

Product(i, s, m, g, e) ==
    [id |-> i, stock |-> s, min_balance |-> m, group_path |-> g, expiration_date |-> e]

ProductSet(I, Q, T, G, E) ==
    {Product(i, s, m, g, e) : i \in I, s \in Q, m \in T, g \in G, e \in E}

DistinctIds(ps) ==
    \A i, j \in 1..Len(ps) : i # j => ps[i].id # ps[j].id

ProductLists(P, n) ==
    {ps \in UNION {[1..k -> P] : k \in 0..n} : DistinctIds(ps)}

StockQuantities == {-1, 0, 2, 3, 4, 5, 6}

StockThresholds == {None, Some(-2), Some(0), Some(3), Some(5)}

StockLists ==
    ProductLists(ProductSet(Ids, StockQuantities, StockThresholds, {"A"}, {None}),
                 Cardinality(Ids))

\* The quantities and the threshold of the documented run sequences.
RunQuantities == {-1, 0, 2, 3, 6, 7, 10}

RunThresholds == {None, Some(5)}

RunProducts ==
    ProductSet({TrackedId}, RunQuantities, RunThresholds, {"A"}, {None})

\* The products of the runs of the Main.py variant and of the canonical checker
\* side by side.
VariantLists ==
    ProductLists(ProductSet(Ids, {0, 3, 4, 6}, {None, Some(0), Some(5)}, {"A"}, {None}),
                 Cardinality(Ids))

\* Expiration datetimes: day 10 at 00:00 and at 12:00, day 12 at 00:00.
ExpirationDates == {None, Some(10 * TicksPerDay), Some(10 * TicksPerDay + 1),
                    Some(12 * TicksPerDay)}

ExpLists ==
    ProductLists(ProductSet(Ids, {6}, {None}, {"A"}, ExpirationDates), Cardinality(Ids))

AlertDaysChoices == {5, DefaultAlertDays, 10}

\* The products of the cycles that run both checkers.
CycleLists ==
    ProductLists(ProductSet(Ids, {0, 3, 6}, {None, Some(5)}, {"A"},
                            {None, Some(4 * TicksPerDay)}),
                 Cardinality(Ids))

\* The days of the tracked expiration runs, and the two dates of the tracked
\* product: day 10 and day 12.
RunDays == {0, 3, 5, 7, 10, 11, 42}

RunTimes == {d * TicksPerDay : d \in RunDays}

TrackedDates == {Some(10 * TicksPerDay), Some(12 * TicksPerDay)}

\* The products of the runs that dispatch to several categories: three products
\* in two categories, each either out of stock and past its expiration date or
\* in stock and without a date, in any order and any selection.
DispatchIds == {"P1", "P2", "P3"}

DispatchGroup(id) ==
    IF id = "P2" THEN "B" ELSE "A"

DispatchProducts ==
    {Product(id, 0, Some(5), DispatchGroup(id), Some(2 * TicksPerDay)) : id \in DispatchIds}
        \cup {Product(id, 6, Some(5), DispatchGroup(id), None) : id \in DispatchIds}

DispatchLists ==
    ProductLists(DispatchProducts, Cardinality(DispatchIds))

\* The time of these runs: day 5.
DispatchNow == 5 * TicksPerDay

\* The header and the alert texts of the send calls: lines without whitespace at
\* their ends, one "\n" between the lines of an alert, as the alert builders of
\* core/notification.py format them.
SendHeader == <<"H">>

AlertTexts ==
    { <<"a">>,
      <<"b", "\n", "c">>,
      <<"d", "d", "\n", "e", "\n", "f">>,
      <<"g", "g", "g", "\n", "h", "h", "h", "h", "h", "h", "\n", "i", "i">> }

MessageLimits == {5, 9, 12}

SendCalls ==
    [header   : {SendHeader},
     messages : UNION {[1..k -> AlertTexts] : k \in 0..MaxAlerts},
     fail_at  : 0..MaxAlerts]

\* The rows the API holds in the cycles of the scheduler: P1 and P2 out of stock
\* and past their date, in two categories; P1 in stock and undated; a row without
\* 'id'; P3 with a stock, or a minimum balance, that is not a number.
Row(i, s, m, g, e) ==
    [id |-> i, stock |-> s, minimumBalance |-> m, group_path |-> g, expiration_date |-> e]

RowOut(id, g) ==
    Row(Some(id), Num(0), Some(Num(5)), g, Some(2 * TicksPerDay))

RowIn(id, g) ==
    Row(Some(id), Num(6), Some(Num(5)), g, None)

RowNoId ==
    Row(None, Num(0), Some(Num(5)), "A", None)

RowBadStock ==
    Row(Some("P3"), NotNum, Some(Num(5)), "A", None)

RowBadMin ==
    Row(Some("P3"), Num(3), Some(NotNum), "A", None)

RowLists ==
    { <<>>,
      <<RowOut("P1", "A")>>,
      <<RowIn("P1", "A")>>,
      <<RowOut("P1", "A"), RowOut("P2", "B")>>,
      <<RowOut("P1", "A"), RowOut("P2", "B"), RowIn("P3", "A")>>,
      <<RowNoId, RowOut("P1", "A")>>,
      <<RowBadStock, RowOut("P1", "A")>>,
      <<RowOut("P1", "A"), RowBadStock, RowOut("P2", "B")>>,
      <<RowBadMin, RowOut("P2", "B")>> }

\* For each attempt of fetch_all_products, the request that fails (0: none).
FetchPlans ==
    { <<0, 0, 0>>, <<1, 0, 0>>, <<2, 1, 0>>, <<2, 2, 2>>, <<1, 2, 1>> }

\* What interrupts the fetch.
FetchStops == {"none", "cancel", "timeout"}

\* What happens to a checker run from outside: nothing, sends that return False,
\* an interruption during a send, a save that fails.
RunEnvs ==
    {NoFaults}
        \cup {[NoFaults EXCEPT !.failed = F] : F \in {{1}, {2}, {1, 2}}}
        \cup {[NoFaults EXCEPT !.stop_at = i, !.stop = c] :
                  i \in 1..2, c \in {"cancel", "timeout"}}
        \cup {[NoFaults EXCEPT !.save_fails = f] : f \in {"refused", "torn"}}

\* The stores a CacheManager is asked to save.
StoreChoices ==
    { EmptyDict,
      Put(EmptyDict, "P1", StockRecord(Product("P1", 0, Some(5), "A", None))),
      Put(Put(EmptyDict, "P1", StockRecord(Product("P1", 3, Some(5), "A", None))),
          "P2", StockRecord(Product("P2", 9, Some(5), "B", None))) }

\* The product of the stock runs on that CacheManager: out of stock, below its
\* minimum, above it.
CacheRunProducts ==
    {Product("P1", q, Some(5), "A", None) : q \in {0, 3, 6}}

\* The times of the calls on the CacheManager: within a day, at the age of
\* CACHE_RESET_DAYS exactly, one tick later, and much later.
CacheTimes ==
    { 0, TicksPerDay, CACHE_RESET_DAYS * TicksPerDay, CACHE_RESET_DAYS * TicksPerDay + 1,
      2 * CACHE_RESET_DAYS * TicksPerDay + 2 }

\* The send calls of one checker run: one or two categories, each with one or
\* two alerts.
PaceCall ==
    [header : {SendHeader}, messages : UNION {[1..k -> AlertTexts] : k \in 1..2}]

PaceCalls ==
    UNION {[1..k -> PaceCall] : k \in 1..2}

\* For each send call of a run, the bot.send_message call that fails (0: none).
DeliveryFails(calls) ==
    [1..Len(calls) -> 0..MaxAlerts]

\* The rows the API holds when fetch_all_products is called: none, or the first
\* rows of five.
FetchAllRows ==
    <<RowOut("P1", "A"), RowOut("P2", "A"), RowIn("P3", "A"), RowOut("P4", "B"),
      RowIn("P5", "B")>>

FetchRowLists ==
    {SubSeq(FetchAllRows, 1, n) : n \in 0..Len(FetchAllRows)}

\* For each attempt of fetch_all_products, the request that fails (0: none).
AttemptPlans ==
    [1..retry_count -> 0..FailableRequests]

\* Numbers as extract_phone returns them.
Phones == {"9001112233", "9004445566"}

\* The numbers of one spreadsheet: process_excel returns list(set(...)).
BatchLists ==
    {b \in UNION {[1..k -> Phones] : k \in 1..2} :
        \A i, j \in 1..Len(b) : i # j => b[i] # b[j]}

\* What the awaited create_counterparty does: it returns True (created, or 409),
\* returns False, or raises.
CreateOutcomes == {"True", "False", "raise"}

\* The chat messages handled at the same time.
ChatHandlers == {1, 2}

\* ---------------------------------------------------- what a run dispatched

AlertsOf(sent, id) ==
    {a \in UNION {{sent[i].alerts[j] : j \in 1..Len(sent[i].alerts)} : i \in 1..Len(sent)} :
        a.id = id}

AlertKind(sent, id) ==
    IF AlertsOf(sent, id) = {} THEN "none"
    ELSE (CHOOSE a \in AlertsOf(sent, id) : TRUE).kind

\* The alert of id in sent by the rule that emitted it.
AlertTier(sent, id) ==
    IF AlertsOf(sent, id) = {} THEN "none"
    ELSE LET a == CHOOSE x \in AlertsOf(sent, id) : TRUE
         IN  IF a.kind # "near" THEN a.kind
             ELSE IF a.days_left >= 7 THEN "near7" ELSE "near3"

InList(ps, id) ==
    \E i \in 1..Len(ps) : ps[i].id = id

ProductOf(ps, id) ==
    ps[CHOOSE i \in 1..Len(ps) : ps[i].id = id]

\* ----------------------------------------------------------------- actions

\* Both stores start empty: CacheManager.load returns {} when there is no file.
InitStores ==
    /\ stock_store = EmptyDict
    /\ stock_before = EmptyDict
    /\ stock_sent = <<>>
    /\ products = <<>>
    /\ hist = <<>>
    /\ legacy_store = EmptyDict
    /\ legacy_before = EmptyDict
    /\ legacy_sent = <<>>
    /\ exp_store = EmptyDict
    /\ exp_before = EmptyDict
    /\ exp_sent = <<>>
    /\ now = 0
    /\ unchanged = {}
    /\ same_days = {}
    /\ exp_saved = None
    /\ exp_hist = <<>>

\* TelegramNotifier(bot, chat_id) with no send call made.
InitNotifier ==
    /\ tg_limit = TG_MESSAGE_LIMIT
    /\ tg_call = [header |-> <<>>, messages |-> <<>>, fail_at |-> 0]
    /\ tg_sent = <<>>
    /\ tg_result = "idle"
    /\ legacy_tg_sent = <<>>
    /\ legacy_tg_result = "idle"

\* CheckerScheduler(api, checkers, check_interval, logger) before run() is called,
\* and a CacheManager whose file does not exist yet.
InitRun ==
    /\ sched_pc = "idle"
    /\ sched_running = FALSE
    /\ sched_cycle = 0
    /\ sched_steps = <<>>
    /\ sched_rows = <<>>
    /\ sched_products = <<>>
    /\ stock_io = <<>>
    /\ exp_io = <<>>
    /\ stock_memory = EmptyDict
    /\ exp_memory = EmptyDict
    /\ cache_file = NoFile
    /\ cache_loaded = NotLoaded
    /\ cache_clock = 0

\* No checker run is about to send.
InitDeliveryIdle ==
    /\ dlv_fails = <<>>
    /\ dlv_log = NoDelivery

\* fetch_all_products has not been called.
InitFetchIdle ==
    /\ fetch_rows = <<>>
    /\ fetch_plan = [a \in 1..retry_count |-> 0]
    /\ fetch_out = NotFetched

\* CacheManager() of the bot with no cache file, and no message received.
InitRegistrationIdle ==
    /\ phone_cache = {}
    /\ reg_chat = [h \in ChatHandlers |-> IdleChat]
    /\ reg_batch = IdleBatch
    /\ reg_success = [ph \in Phones |-> 0]

InitIdle ==
    /\ InitDeliveryIdle
    /\ InitFetchIdle
    /\ InitRegistrationIdle

\* ExpirationChecker(notifier, cache_manager): alert_days has its default.
Init ==
    /\ InitStores
    /\ InitNotifier
    /\ InitRun
    /\ InitIdle
    /\ pace_calls = <<>>
    /\ pace_trace = <<>>
    /\ alert_days = DefaultAlertDays

\* ExpirationChecker(notifier, cache_manager, alert_days).
InitConfigured ==
    /\ InitStores
    /\ InitNotifier
    /\ InitRun
    /\ InitIdle
    /\ pace_calls = <<>>
    /\ pace_trace = <<>>
    /\ alert_days \in AlertDaysChoices

\* TelegramNotifier(bot, chat_id, message_limit), and a send call that both
\* notifiers are about to handle.
InitSend ==
    /\ InitStores
    /\ InitRun
    /\ InitIdle
    /\ pace_calls = <<>>
    /\ pace_trace = <<>>
    /\ alert_days = DefaultAlertDays
    /\ tg_limit \in MessageLimits
    /\ tg_call \in SendCalls
    /\ tg_sent = <<>>
    /\ tg_result = "pending"
    /\ legacy_tg_sent = <<>>
    /\ legacy_tg_result = "pending"

\* A checker run that is about to make the send calls of its categories.
InitPacing ==
    /\ InitStores
    /\ InitRun
    /\ InitIdle
    /\ alert_days = DefaultAlertDays
    /\ tg_limit \in MessageLimits
    /\ tg_call = [header |-> <<>>, messages |-> <<>>, fail_at |-> 0]
    /\ tg_sent = <<>>
    /\ tg_result = "idle"
    /\ legacy_tg_sent = <<>>
    /\ legacy_tg_result = "idle"
    /\ pace_calls \in PaceCalls
    /\ pace_trace = <<>>

\* A checker run that is about to make the send calls of its categories, with
\* the transport calls that will fail.
InitDelivery ==
    /\ InitStores
    /\ InitRun
    /\ InitFetchIdle
    /\ InitRegistrationIdle
    /\ alert_days = DefaultAlertDays
    /\ tg_limit \in MessageLimits
    /\ tg_call = [header |-> <<>>, messages |-> <<>>, fail_at |-> 0]
    /\ tg_sent = <<>>
    /\ tg_result = "idle"
    /\ legacy_tg_sent = <<>>
    /\ legacy_tg_result = "idle"
    /\ pace_calls \in PaceCalls
    /\ pace_trace = <<>>
    /\ dlv_fails \in DeliveryFails(pace_calls)
    /\ dlv_log = NoDelivery

\* fetch_all_products is about to be called.
InitFetching ==
    /\ InitStores
    /\ InitNotifier
    /\ InitRun
    /\ InitDeliveryIdle
    /\ InitRegistrationIdle
    /\ pace_calls = <<>>
    /\ pace_trace = <<>>
    /\ alert_days = DefaultAlertDays
    /\ fetch_rows \in FetchRowLists
    /\ fetch_plan \in AttemptPlans
    /\ fetch_out = NotFetched

\* CacheManager() of the bot: the names of its cache file are loaded.
InitRegistration ==
    /\ InitStores
    /\ InitNotifier
    /\ InitRun
    /\ InitDeliveryIdle
    /\ InitFetchIdle
    /\ pace_calls = <<>>
    /\ pace_trace = <<>>
    /\ alert_days = DefaultAlertDays
    /\ phone_cache \in SUBSET Phones
    /\ reg_chat = [h \in ChatHandlers |-> IdleChat]
    /\ reg_batch = IdleBatch
    /\ reg_success = [ph \in Phones |-> 0]

\* StockChecker.process: load, the loop over the filtered products, one send per
\* group, save.
StockRun(ps) ==
    LET r == StockProcess(ps, stock_store)
    IN  /\ products' = ps
        /\ stock_before' = stock_store
        /\ stock_sent' = r.alerts_by_group
        /\ stock_store' = r.cache

\* StockChecker.process of Main.py.
LegacyStockRun(ps) ==
    LET r == LegacyStockProcess(ps, legacy_store)
    IN  /\ products' = ps
        /\ legacy_before' = legacy_store
        /\ legacy_sent' = r.alerts_by_group
        /\ legacy_store' = r.cache

\* ExpirationChecker.process at time t.
ExpRun(ps, t) ==
    LET r == ExpProcess(ps, exp_store, t, alert_days)
    IN  /\ products' = ps
        /\ now' = t
        /\ exp_before' = exp_store
        /\ exp_sent' = r.alerts_by_group
        /\ exp_store' = r.cache

StockCycle ==
    \E ps \in StockLists :
        /\ StockRun(ps)
        /\ UNCHANGED <<hist, legacy_vars, exp_vars, now, alert_days, unchanged, same_days, exp_run_vars, tg_vars, run_vars>>

\* A stock run on the tracked product; hist records it when the checker evaluated
\* the product.
TrackedStockCycle ==
    \E p \in RunProducts :
        /\ Len(hist) < MaxRuns
        /\ StockRun(<<p>>)
        /\ hist' = IF needs_stock_check(p)
                   THEN Append(hist, [stock |-> p.stock,
                                      min_balance |-> p.min_balance[1],
                                      alert |-> AlertKind(stock_sent', p.id),
                                      record |-> Get(stock_store', p.id, EmptyDict)])
                   ELSE hist
        /\ UNCHANGED <<legacy_vars, exp_vars, now, alert_days, unchanged, same_days, exp_run_vars, tg_vars, run_vars>>

\* The same product list given to the canonical stock checker and to the Main.py
\* variant, each with its own store.
VariantCycle ==
    \E ps \in VariantLists :
        /\ StockRun(ps)
        /\ LegacyStockRun(ps)
        /\ UNCHANGED <<hist, exp_vars, now, alert_days, unchanged, same_days, exp_run_vars, tg_vars, run_vars>>

\* An expiration run, at the time of the last run or later.
ExpCycle ==
    \E ps \in ExpLists, t \in now..MaxNow :
        /\ ExpRun(ps, t)
        /\ UNCHANGED <<stock_vars, legacy_vars, hist, alert_days, unchanged, same_days, exp_run_vars, tg_vars, run_vars>>

\* ExpirationChecker.process at time t, with the load and the save of its
\* CacheManager: the file is written at the end of every run.
ExpRunLoaded(ps, t) ==
    LET cache == CacheLoad(exp_saved, exp_store, t)
        r == ExpProcess(ps, cache, t, alert_days)
    IN  /\ products' = ps
        /\ now' = t
        /\ exp_before' = cache
        /\ exp_sent' = r.alerts_by_group
        /\ exp_store' = r.cache
        /\ exp_saved' = Some(t)

\* An expiration run on the tracked product at one of the run times; exp_hist
\* records what the run saw and sent, and whether its load dropped the store.
TrackedExpCycle ==
    \E e \in TrackedDates, t \in RunTimes :
        LET p == Product(TrackedId, 6, None, "A", e)
        IN  /\ t >= now
            /\ Len(exp_hist) < MaxRuns
            /\ ExpRunLoaded(<<p>>, t)
            /\ exp_hist' = Append(exp_hist,
                                  [days_left |-> DaysLeft(e[1], t),
                                   date      |-> DateStr(e[1]),
                                   alert     |-> AlertTier(exp_sent', p.id),
                                   reset     |-> exp_saved # None
                                                 /\ CacheIsExpired(exp_saved[1], t)])
            /\ UNCHANGED <<stock_vars, legacy_vars, hist, alert_days, unchanged,
                           same_days, tg_vars, run_vars>>

\* One cycle of CheckerScheduler.run on products of several categories.
DispatchCycle ==
    \E ps \in DispatchLists :
        /\ StockRun(ps)
        /\ ExpRun(ps, DispatchNow)
        /\ UNCHANGED <<hist, legacy_vars, alert_days, unchanged, same_days,
                       exp_run_vars, tg_vars, run_vars>>

checker_vars == <<stock_vars, legacy_vars, exp_vars, products, hist, now, alert_days,
                  unchanged, same_days, exp_run_vars, run_vars>>

\* TelegramNotifier.send handles the call.
NotifierSend ==
    LET r == send(tg_call.header, tg_call.messages, tg_limit, tg_call.fail_at)
    IN  /\ tg_result = "pending"
        /\ tg_sent' = r.sent
        /\ tg_result' = r.result
        /\ UNCHANGED <<checker_vars, tg_limit, tg_call, legacy_tg_sent, legacy_tg_result>>

\* TelegramNotifier.send of Main.py handles the call.
LegacyNotifierSend ==
    LET r == LegacySend(tg_call.header, tg_call.messages, tg_limit, tg_call.fail_at)
    IN  /\ legacy_tg_result = "pending"
        /\ legacy_tg_sent' = r.sent
        /\ legacy_tg_result' = r.result
        /\ UNCHANGED <<checker_vars, tg_limit, tg_call, tg_sent, tg_result>>

\* The ids whose product is in both lists with the same quantity, threshold and
\* expiration date.
SameProducts(ps, qs) ==
    {id \in Ids : InList(ps, id) /\ InList(qs, id) /\ ProductOf(ps, id) = ProductOf(qs, id)}

\* One cycle of CheckerScheduler.run at time t: the stock check, then the
\* expiration check, on the same product list.
CheckCycle ==
    \E ps \in CycleLists, t \in now..MaxCycleNow :
        /\ StockRun(ps)
        /\ ExpRun(ps, t)
        /\ unchanged' = SameProducts(ps, products)
        /\ same_days' = {id \in SameProducts(ps, products) :
                            LET e == ProductOf(ps, id).expiration_date
                            IN  e # None => DaysLeft(e[1], t) = DaysLeft(e[1], now)}
        /\ UNCHANGED <<hist, legacy_vars, alert_days, exp_run_vars, tg_vars, run_vars>>

not_sched_vars == <<stock_vars, legacy_vars, exp_vars, products, hist, now, alert_days,
                    unchanged, same_days, exp_run_vars, tg_vars, file_vars, pace_vars, io_vars>>

\* The send calls a run made, out of the categories it had alerts for.
SendsMade(r) ==
    SubSeq(r.alerts_by_group, 1,
           Cardinality({i \in 1..Len(r.io) : r.io[i].op = "send"}))

\* run() is called: _running is set and the first cycle begins.
SchedStart ==
    /\ sched_pc = "idle"
    /\ sched_pc' = "fetch"
    /\ sched_running' = TRUE
    /\ UNCHANGED <<sched_cycle, sched_steps, sched_rows, sched_products, stock_io, exp_io,
                   stock_memory, exp_memory, not_sched_vars>>

\* A cycle begins: run() awaits _fetch_products, which ends with products, with
\* [] or with the interruption of the cycle.
FetchStep(rows, plan, stop) ==
    /\ sched_pc = "fetch"
    /\ sched_cycle < MaxCycles
    /\ \E r \in {fetch_products(rows, plan)} :
           \E outcome \in {IF stop # "none" THEN stop
                            ELSE IF r.failed THEN "failed"
                            ELSE IF r.products = <<>> THEN "empty"
                            ELSE "ok"} :
               /\ sched_rows' = rows
               /\ sched_products' = IF outcome = "ok" THEN r.products ELSE <<>>
               /\ sched_steps' = <<Step("fetch", outcome)>>
               /\ sched_pc' = AfterStep("fetch", outcome, sched_running)
    /\ sched_cycle' = sched_cycle + 1
    /\ UNCHANGED <<sched_running, stock_io, exp_io, stock_memory, exp_memory,
                   not_sched_vars>>

SchedFetch ==
    \E rows \in RowLists, plan \in FetchPlans, stop \in FetchStops :
        FetchStep(rows, plan, stop)

\* run() awaits checkers[0].process(products), which ends as env has it.
StockStep(env) ==
    /\ sched_pc = "stock"
    /\ \E r \in {StockCheckerRun(sched_products, stock_store, env)} :
           /\ stock_before' = stock_store
           /\ stock_store' = r.store
           /\ stock_sent' = SendsMade(r)
           /\ stock_io' = r.io
           /\ stock_memory' = r.memory
           /\ sched_steps' = Append(sched_steps, Step("stock", r.outcome))
           /\ sched_pc' = AfterStep("stock", r.outcome, sched_running)
    /\ UNCHANGED <<sched_running, sched_cycle, sched_rows, sched_products, exp_io,
                   exp_memory, legacy_vars, exp_vars, products, hist, now,
                   alert_days, unchanged, same_days, exp_run_vars, tg_vars,
                   file_vars, pace_vars, io_vars>>

SchedStock ==
    \E env \in RunEnvs : StockStep(env)

\* run() awaits checkers[1].process(products), which ends as env has it.
ExpirationStep(env) ==
    /\ sched_pc = "expiration"
    /\ now' = DispatchNow
    /\ exp_before' = exp_store
    /\ \E r \in {ExpCheckerRun(sched_products, exp_store, DispatchNow, alert_days, env)} :
           /\ exp_store' = r.store
           /\ exp_sent' = SendsMade(r)
           /\ exp_io' = r.io
           /\ exp_memory' = r.memory
           /\ sched_steps' = Append(sched_steps, Step("expiration", r.outcome))
           /\ sched_pc' = AfterStep("expiration", r.outcome, sched_running)
    /\ UNCHANGED <<sched_running, sched_cycle, sched_rows, sched_products, stock_io,
                   stock_memory, stock_vars, legacy_vars, products, hist,
                   alert_days, unchanged, same_days, exp_run_vars, tg_vars,
                   file_vars, pace_vars, io_vars>>

SchedExpiration ==
    \E env \in RunEnvs : ExpirationStep(env)

\* run() awaits asyncio.sleep(sleep_time): the sleep ends, or the task is
\* cancelled in it.
SchedSleep ==
    \E outcome \in {"ok", "cancel"} :
        /\ sched_pc = "sleep"
        /\ sched_steps' = Append(sched_steps, Step("sleep", outcome))
        /\ sched_pc' = AfterStep("sleep", outcome, sched_running)
        /\ UNCHANGED <<sched_running, sched_cycle, sched_rows, sched_products, stock_io,
                       exp_io, stock_memory, exp_memory, not_sched_vars>>

\* stop() is called while run() awaits something.
SchedStop ==
    /\ sched_pc \in {"fetch", "stock", "expiration", "sleep"}
    /\ sched_running
    /\ sched_running' = FALSE
    /\ UNCHANGED <<sched_pc, sched_cycle, sched_steps, sched_rows, sched_products,
                   stock_io, exp_io, stock_memory, exp_memory, not_sched_vars>>

SchedNext ==
    \/ SchedStart
    \/ SchedFetch
    \/ SchedStock
    \/ SchedExpiration
    \/ SchedSleep
    \/ SchedStop

not_file_vars == <<legacy_vars, exp_vars, hist, now, alert_days, unchanged, same_days,
                   exp_run_vars, tg_vars, sched_vars, pace_vars, io_vars>>

\* cache_manager.save(data) at time t.
CacheSaveCall ==
    \E data \in StoreChoices, t \in CacheTimes :
        /\ t >= cache_clock
        /\ cache_clock' = t
        /\ cache_file' = save(data, t)
        /\ cache_loaded' = NotLoaded
        /\ UNCHANGED <<stock_vars, products, not_file_vars>>

\* cache_manager.load() at time t.
CacheLoadCall ==
    \E t \in CacheTimes :
        LET l == load(cache_file, t)
        IN  /\ t >= cache_clock
            /\ cache_clock' = t
            /\ cache_file' = l.file
            /\ cache_loaded' = [called |-> TRUE, by |-> "load", raised |-> l.raised,
                                data |-> l.data,                                before |-> cache_file]
            /\ UNCHANGED <<stock_vars, products, not_file_vars>>

\* Something other than the program damages the file: its content is no longer
\* JSON, or the file can no longer be opened.
CacheDamage ==
    \E k \in {"garbled", "denied"} :
        /\ cache_file.exists
        /\ cache_file.kind = "json"
        /\ cache_file' = [cache_file EXCEPT !.kind = k]
        /\ cache_loaded' = NotLoaded
        /\ UNCHANGED <<cache_clock, stock_vars, products, not_file_vars>>

\* StockChecker.process at time t with this CacheManager: load, the checks and
\* the sends, save.  An exception of load would leave process at its first line.
CacheStockRun ==
    \E p \in CacheRunProducts, t \in CacheTimes :
        LET l == load(cache_file, t)
            r == StockProcess(<<p>>, l.data)
        IN  /\ t >= cache_clock
            /\ cache_clock' = t
            /\ cache_loaded' = [called |-> TRUE, by |-> "process", raised |-> l.raised,
                                data |-> l.data,                                before |-> cache_file]
            /\ products' = <<p>>
            /\ stock_before' = l.data
            /\ stock_sent' = IF l.raised THEN <<>> ELSE r.alerts_by_group
            /\ stock_store' = IF l.raised THEN stock_store ELSE r.cache
            /\ cache_file' = IF l.raised THEN l.file ELSE save(r.cache, t)
            /\ UNCHANGED not_file_vars

CacheNext ==
    \/ CacheSaveCall
    \/ CacheLoadCall
    \/ CacheDamage
    \/ CacheStockRun

\* The checker run makes its send calls, one per category.
PacedRun ==
    /\ pace_trace = <<>>
    /\ pace_trace' = ProcessEvents(pace_calls, tg_limit)
    /\ UNCHANGED <<stock_vars, legacy_vars, exp_vars, products, hist, now, alert_days,
                   unchanged, same_days, exp_run_vars, sched_vars, file_vars, tg_vars, pace_calls,
                   io_vars>>

not_io_vars == <<stock_vars, legacy_vars, exp_vars, products, hist, now, alert_days,
                 unchanged, same_days, exp_run_vars, tg_vars, sched_vars, file_vars,
                 pace_vars>>

\* The checker run makes its send calls and saves.
DeliveryRun ==
    /\ ~dlv_log.called
    /\ dlv_log' = ProcessDelivery(pace_calls, dlv_fails, tg_limit)
    /\ UNCHANGED <<not_io_vars, dlv_fails, fetch_vars, reg_vars>>

\* fetch_all_products is called and ends.
FetchCall ==
    LET r == fetch_all_products(fetch_rows, fetch_plan)
    IN  /\ ~fetch_out.called
        /\ fetch_out' = [called |-> TRUE, raised |-> r.raised, products |-> r.products,
                         attempts |-> r.attempts]
        /\ UNCHANGED <<not_io_vars, dlv_vars, fetch_rows, fetch_plan, reg_vars>>

\* A chat message with a number is received: the handler runs up to its first
\* await.
ChatReceive ==
    \E h \in ChatHandlers, ph \in Phones :
        /\ reg_chat[h].pc = "idle"
        /\ reg_chat' = [reg_chat EXCEPT ![h] = ChatBegin(phone_cache, ph)]
        /\ UNCHANGED <<not_io_vars, dlv_vars, fetch_vars, phone_cache, reg_batch,
                       reg_success>>

\* The create_counterparty call a handler awaits ends, and the handler runs up to
\* its next await.
ChatCreateReturns ==
    \E h \in ChatHandlers, outcome \in CreateOutcomes :
        LET c == reg_chat[h]
        IN  /\ c.pc = "create"
            /\ reg_chat' = [reg_chat EXCEPT ![h] = ChatAfterCreate(c, outcome)]
            /\ phone_cache' = IF outcome = "True"
                               THEN add_counterparty(phone_cache, c.phone)
                               ELSE phone_cache
            /\ reg_success' = IF outcome = "True"
                               THEN [reg_success EXCEPT ![c.phone] = @ + 1]
                               ELSE reg_success
            /\ UNCHANGED <<not_io_vars, dlv_vars, fetch_vars, reg_batch>>

\* The message.answer a handler awaits after a success ends.
ChatAnswerEnds ==
    \E h \in ChatHandlers, outcome \in {"ok", "raise"} :
        /\ reg_chat[h].pc = "answer"
        /\ reg_chat' = [reg_chat EXCEPT ![h] = ChatAfterAnswer(reg_chat[h], outcome)]
        /\ UNCHANGED <<not_io_vars, dlv_vars, fetch_vars, phone_cache, reg_batch,
                       reg_success>>

\* The sleep before the next attempt ends: the attempt calls create_counterparty.
ChatSleepEnds ==
    \E h \in ChatHandlers :
        /\ reg_chat[h].pc = "sleep"
        /\ reg_chat' = [reg_chat EXCEPT ![h] = [@ EXCEPT !.pc = "create",
                                                         !.attempt = @ + 1,
                                                         !.requests = @ + 1]]
        /\ UNCHANGED <<not_io_vars, dlv_vars, fetch_vars, phone_cache, reg_batch,
                       reg_success>>

\* process_batch is called with the numbers of a spreadsheet.
BatchStart ==
    \E b \in BatchLists :
        /\ reg_batch.pc = "idle"
        /\ reg_batch' = BatchGoOn([IdleBatch EXCEPT !.batch = b], 1, phone_cache)
        /\ UNCHANGED <<not_io_vars, dlv_vars, fetch_vars, phone_cache, reg_chat,
                       reg_success>>

\* The create_counterparty call process_batch awaits ends: the number is added to
\* the cache and counted, or it is listed as an error; the loop goes on.
BatchCreateReturns ==
    \E outcome \in CreateOutcomes :
        LET ph == reg_batch.batch[reg_batch.i]
            cache == IF outcome = "True" THEN add_counterparty(phone_cache, ph)
                     ELSE phone_cache
            b == IF outcome = "True"
                 THEN [reg_batch EXCEPT !.success = @ \cup {ph}]
                 ELSE [reg_batch EXCEPT !.errors = @ \cup {ph}]
        IN  /\ reg_batch.pc = "create"
            /\ phone_cache' = cache
            /\ reg_success' = IF outcome = "True"
                               THEN [reg_success EXCEPT ![ph] = @ + 1]
                               ELSE reg_success
            /\ reg_batch' = BatchGoOn(b, reg_batch.i + 1, cache)
            /\ UNCHANGED <<not_io_vars, dlv_vars, fetch_vars, reg_chat>>

RegNext ==
    \/ ChatReceive
    \/ ChatCreateReturns
    \/ ChatAnswerEnds
    \/ ChatSleepEnds
    \/ BatchStart
    \/ BatchCreateReturns

Next ==
    \/ StockCycle
    \/ TrackedStockCycle
    \/ VariantCycle
    \/ ExpCycle
    \/ CheckCycle
    \/ TrackedExpCycle
    \/ NotifierSend
    \/ LegacyNotifierSend
    \/ DispatchCycle
    \/ SchedNext
    \/ CacheNext
    \/ PacedRun
    \/ DeliveryRun
    \/ FetchCall
    \/ RegNext

Spec == Init /\ [][Next]_vars

SpecStock == Init /\ [][StockCycle]_vars

SpecStockRuns == Init /\ [][TrackedStockCycle]_vars

SpecVariants == Init /\ [][VariantCycle]_vars

SpecExp == InitConfigured /\ [][ExpCycle]_vars

SpecCycle == Init /\ [][CheckCycle]_vars

SpecExpRuns == Init /\ [][TrackedExpCycle]_vars

SpecDispatch == Init /\ [][DispatchCycle]_vars

SpecSend == InitSend /\ [][NotifierSend \/ LegacyNotifierSend]_vars

SpecSched == Init /\ [][SchedNext]_vars

SpecCache == Init /\ [][CacheNext]_vars

SpecPacing == InitPacing /\ [][PacedRun]_vars

SpecDelivery == InitDelivery /\ [][DeliveryRun]_vars

SpecFetch == InitFetching /\ [][FetchCall]_vars

SpecRegistration == InitRegistration /\ [][RegNext]_vars

\* The call run() awaits at step returns or throws: run() goes on to another
\* place.  Every ending of a check leaves the check.
Returns(step) ==
    /\ sched_pc = step
    /\ sched_pc' \in {"fetch", "stock", "expiration", "sleep", "exited"} \ {step}

\* run() with the calls it awaits ending: the fetch and the checks are under the
\* deadline of the cycle (asyncio.timeout), the sleep lasts sleep_time.  A fetch
\* that can always end does end, in one way or another: the fairness of one of
\* its endings is the fairness of the fetch, each ending being one more cycle.
SpecSchedFair ==
    /\ Init
    /\ [][SchedNext]_vars
    /\ WF_vars(FetchStep(<<>>, <<0, 0, 0>>, "none"))
    /\ WF_sched_pc(Returns("stock"))
    /\ WF_sched_pc(Returns("expiration"))
    /\ WF_vars(SchedSleep)

\* ------------------------------------------------- the last run, as observed

\* The products of the last run that StockChecker.process hands to _check_product.
CheckedProducts ==
    {products[i] : i \in {j \in 1..Len(products) :
        products[j].min_balance # None /\ products[j].min_balance[1] > 0}}

PrevZeroReported(id) ==
    id \in DOMAIN stock_before /\ stock_before[id].zero_reported

PrevBelowReported(id) ==
    id \in DOMAIN stock_before /\ stock_before[id].below_min_reported

PrevLastAbove(id, threshold) ==
    id \in DOMAIN stock_before /\ stock_before[id].last_stock[1] > threshold

\* ------------------------------------------------------------------- claims

\* C1: for every product the stock checker evaluates, the run emits a "stock
\* exhausted" alert if and only if the quantity is <= 0 and the zero_reported flag
\* of the previous record is false (no record counts as false).
C1_ExhaustedIff ==
    \A p \in CheckedProducts :
        (AlertKind(stock_sent, p.id) = "zero")
            <=> (p.stock <= 0 /\ ~PrevZeroReported(p.id))

\* C1 witness: a product with a record whose zero_reported is false was observed
\* with quantity <= 0 and the exhausted alert was sent.
C1_Witness ==
    \E p \in CheckedProducts :
        /\ p.stock <= 0
        /\ p.id \in DOMAIN stock_before
        /\ ~stock_before[p.id].zero_reported
        /\ AlertKind(stock_sent, p.id) = "zero"

\* C2: first match wins: when the exhausted rule does not fire, a "below minimum"
\* alert is emitted if and only if quantity <= threshold and (the previous
\* below_min_reported is false or the previous last_stock is greater than the
\* current threshold); in every other case no alert is emitted.
C2_BelowMinimumIff ==
    \A p \in CheckedProducts :
        LET threshold == p.min_balance[1]
            rule1 == p.stock <= 0 /\ ~PrevZeroReported(p.id)
            rule2 == /\ p.stock <= threshold
                     /\ (~PrevBelowReported(p.id) \/ PrevLastAbove(p.id, threshold))
        IN  ~rule1 => AlertKind(stock_sent, p.id) = (IF rule2 THEN "min" ELSE "none")

\* C2 witness: a below-minimum alert for a product whose record says the minimum
\* was already reported, because its last quantity is above the (lowered) minimum.
C2_Witness ==
    \E p \in CheckedProducts :
        /\ PrevBelowReported(p.id)
        /\ PrevLastAbove(p.id, p.min_balance[1])
        /\ p.stock > 0
        /\ AlertKind(stock_sent, p.id) = "min"

\* C3: after the stock checker evaluated a product, its record is
\* below_min_reported = (quantity <= threshold), zero_reported = (quantity <= 0),
\* last_stock = quantity, whatever the previous record and whether or not an
\* alert fired.
C3_RecordOverwritten ==
    \A p \in CheckedProducts :
        /\ p.id \in DOMAIN stock_store
        /\ stock_store[p.id] = [below_min_reported |-> p.stock <= p.min_balance[1],
                                zero_reported      |-> p.stock <= 0,
                                last_stock         |-> <<p.stock>>]

\* C3 witness: a run that sent no alert for a product replaced a different record.
C3_Witness ==
    \E p \in CheckedProducts :
        /\ AlertKind(stock_sent, p.id) = "none"
        /\ p.id \in DOMAIN stock_before
        /\ stock_before[p.id] # stock_store[p.id]

\* The alerts of the evaluated runs i..i+n-1 of hist, when their quantities are qs
\* and the threshold is t in each of them; <<>> otherwise.
HistAt(i, qs, t) ==
    /\ i + Len(qs) - 1 <= Len(hist)
    /\ \A k \in 1..Len(qs) :
           hist[i + k - 1].stock = qs[k] /\ hist[i + k - 1].min_balance = t

HistAlerts(i, n) ==
    [k \in 1..n |-> hist[i + k - 1].alert]

C8_Original ==
    \A i \in 1..Len(products) :
        LET p == products[i]
        IN  IF p.min_balance # None
            THEN /\ p.id \in DOMAIN stock_store
                 /\ stock_store[p.id] =
                        [below_min_reported |-> p.stock <= p.min_balance[1],
                         zero_reported      |-> p.stock <= 0,
                         last_stock         |-> <<p.stock>>]
            ELSE /\ AlertKind(stock_sent, p.id) = "none"
                 /\ (p.id \in DOMAIN stock_store) = (p.id \in DOMAIN stock_before)
                 /\ p.id \in DOMAIN stock_store => stock_store[p.id] = stock_before[p.id]

\* C8 amended: a product is evaluated exactly when its threshold is not None and
\* greater than 0, decided from this run's threshold alone: then its record is
\* this run's observation; otherwise no alert is sent for it and its record, or
\* the lack of one, is as before the run.
C8_EvaluatedIffPositiveThreshold ==
    \A i \in 1..Len(products) :
        LET p == products[i]
        IN  IF p.min_balance # None /\ p.min_balance[1] > 0
            THEN /\ p.id \in DOMAIN stock_store
                 /\ stock_store[p.id] =
                        [below_min_reported |-> p.stock <= p.min_balance[1],
                         zero_reported      |-> p.stock <= 0,
                         last_stock         |-> <<p.stock>>]
            ELSE /\ AlertKind(stock_sent, p.id) = "none"
                 /\ (p.id \in DOMAIN stock_store) = (p.id \in DOMAIN stock_before)
                 /\ p.id \in DOMAIN stock_store => stock_store[p.id] = stock_before[p.id]

\* C8 witness: a product that has a record from an earlier run is observed with
\* threshold 0 and a quantity its record does not hold, and the record is kept.
C8_Witness ==
    \E i \in 1..Len(products) :
        /\ products[i].min_balance = <<0>>
        /\ products[i].id \in DOMAIN stock_store
        /\ stock_store[products[i].id].last_stock # <<products[i].stock>>

\* The record of id in a store after a run is the one it had before the run, or
\* it has none.
KeptOrRemoved(before, after, id) ==
    \/ id \notin DOMAIN after
    \/ id \in DOMAIN before /\ after[id] = before[id]

\* C9: a product whose threshold is None gets no stock alert and its id's record
\* is neither created nor modified: a record that exists is left as it was
\* (core/services/checkers/stock.py) or removed (Main.py).
C9_NoThresholdNoRecord ==
    \A i \in 1..Len(products) :
        products[i].min_balance = None =>
            /\ AlertKind(stock_sent, products[i].id) = "none"
            /\ AlertKind(legacy_sent, products[i].id) = "none"
            /\ KeptOrRemoved(stock_before, stock_store, products[i].id)
            /\ KeptOrRemoved(legacy_before, legacy_store, products[i].id)

\* C9 witness: a product that had a record in both stores is seen without a
\* threshold; the canonical checker keeps the record and Main.py removes it.
C9_Witness ==
    \E i \in 1..Len(products) :
        /\ products[i].min_balance = None
        /\ products[i].id \in DOMAIN stock_before
        /\ products[i].id \in DOMAIN stock_store
        /\ products[i].id \in DOMAIN legacy_before
        /\ products[i].id \notin DOMAIN legacy_store

ExpCheckedProducts ==
    {products[i] : i \in {j \in 1..Len(products) : products[j].expiration_date # None}}

\* The record of p before the last run belongs to the epoch of p's date.
SameEpoch(p) ==
    /\ p.id \in DOMAIN exp_before
    /\ exp_before[p.id]["expiration_date"] = p.expiration_date[1] \div TicksPerDay

WasExpired(p) ==
    /\ SameEpoch(p)
    /\ "was_expired" \in DOMAIN exp_before[p.id]
    /\ exp_before[p.id]["was_expired"]

IsExpiredNow(store, id) ==
    /\ id \in DOMAIN store
    /\ "was_expired" \in DOMAIN store[id]
    /\ store[id]["was_expired"]

EpochRecord(p) ==
    IF SameEpoch(p) THEN exp_before[p.id]
    ELSE [expiration_date |-> p.expiration_date[1] \div TicksPerDay]

Flag(record, name) ==
    name \in DOMAIN record /\ record[name]

WithFlag(record, name) ==
    [k \in (DOMAIN record) \cup {name} |-> IF k = name THEN TRUE ELSE record[k]]

\* C11: when the expired rule does not fire and 0 <= days_left <= alert_days, a
\* near-expiration alert is emitted if and only if (days_left >= 7 and the 7-day
\* flag is false) or (days_left <= 3 and the 3-day flag is false), and exactly the
\* flag of the tier that fired is set; for 3 < days_left < 7 and for days_left
\* outside the band no alert is emitted and no flag changes.
C11_NearTiers ==
    \A p \in ExpCheckedProducts :
        LET days_left == (p.expiration_date[1] - now) \div TicksPerDay
            record == EpochRecord(p)
            expired == days_left < 0 /\ ~Flag(record, "was_expired")
            tier7 == days_left >= 7 /\ ~Flag(record, "was_notified_7_days")
            tier3 == days_left <= 3 /\ ~Flag(record, "was_notified_3_days")
            after == exp_store[p.id]
        IN  ~expired =>
                IF 0 <= days_left /\ days_left <= alert_days
                THEN /\ AlertKind(exp_sent, p.id) =
                            (IF tier7 \/ tier3 THEN "near" ELSE "none")
                     /\ tier7 => after = WithFlag(record, "was_notified_7_days")
                     /\ tier3 => after = WithFlag(record, "was_notified_3_days")
                     /\ ~tier7 /\ ~tier3 => after = record
                ELSE /\ AlertKind(exp_sent, p.id) = "none"
                     /\ after = record

\* C11 witness: a product whose record has the 7-day flag is seen at 3 days or
\* less; the near-expiration alert is sent and the record has both flags.
C11_Witness ==
    \E p \in ExpCheckedProducts :
        /\ SameEpoch(p)
        /\ Flag(exp_before[p.id], "was_notified_7_days")
        /\ ~Flag(exp_before[p.id], "was_notified_3_days")
        /\ AlertKind(exp_sent, p.id) = "near"
        /\ Flag(exp_store[p.id], "was_notified_7_days")
        /\ Flag(exp_store[p.id], "was_notified_3_days")

\* The alert and the record of a run that sees p with no record at all.
FirstSightingAlert(p) ==
    LET days_left == (p.expiration_date[1] - now) \div TicksPerDay
    IN  IF days_left < 0 THEN "expired"
        ELSE IF days_left <= alert_days /\ (days_left >= 7 \/ days_left <= 3) THEN "near"
        ELSE "none"

FirstSightingRecord(p) ==
    LET days_left == (p.expiration_date[1] - now) \div TicksPerDay
        fresh == [expiration_date |-> p.expiration_date[1] \div TicksPerDay]
    IN  IF days_left < 0 THEN WithFlag(fresh, "was_expired")
        ELSE IF days_left <= alert_days /\ days_left >= 7
             THEN WithFlag(fresh, "was_notified_7_days")
        ELSE IF days_left <= alert_days /\ days_left <= 3
             THEN WithFlag(fresh, "was_notified_3_days")
        ELSE fresh

\* C12: expiration epoch reset: when the date of a product's record differs from
\* the product's date, the flags are cleared before the decision: the alert and
\* the record of the run are those of a product seen for the first time (no
\* record) with that date.
C12_EpochReset ==
    \A p \in ExpCheckedProducts :
        ~SameEpoch(p) =>
            /\ AlertKind(exp_sent, p.id) = FirstSightingAlert(p)
            /\ exp_store[p.id] = FirstSightingRecord(p)

\* C12 witness: a record with the 3-day flag, of another date, and the 3-day alert
\* is sent again for the new date.
C12_Witness ==
    \E p \in ExpCheckedProducts :
        /\ p.id \in DOMAIN exp_before
        /\ ~SameEpoch(p)
        /\ Flag(exp_before[p.id], "was_notified_3_days")
        /\ AlertKind(exp_sent, p.id) = "near"
        /\ (p.expiration_date[1] - now) \div TicksPerDay <= 3

\* The runs i..i+n-1 of exp_hist have the days_left ds, all with the same date.
ExpHistAt(i, ds) ==
    /\ i + Len(ds) - 1 <= Len(exp_hist)
    /\ \A k \in 1..Len(ds) :
           exp_hist[i + k - 1].days_left = ds[k] /\ exp_hist[i + k - 1].date = exp_hist[i].date

\* C13: default configuration, unchanged date: a product seen with days_left 10,
\* 7, 3, -1 in four consecutive runs gets exactly three alerts, on the runs with
\* 7, 3 and -1, and none on the run with 10.
C13_TierSequence ==
    \A i \in 1..Len(exp_hist) :
        ExpHistAt(i, <<10, 7, 3, -1>>) =>
            [k \in 1..4 |-> exp_hist[i + k - 1].alert] = <<"none", "near7", "near3", "expired">>

\* C13 witness: the four runs have happened.
C13_Witness ==
    ExpHistAt(1, <<10, 7, 3, -1>>)

\* The runs i..j of exp_hist are of one expiration epoch: the date is the same
\* in all of them.
OneEpoch(i, j) ==
    \A k \in i..j : exp_hist[k].date = exp_hist[i].date

\* C14 as stated: within one expiration epoch each alert kind (expired, 7-day
\* tier, 3-day tier) is emitted at most once, over any sequence of runs.
C14_Original ==
    \A i, j \in 1..Len(exp_hist) :
        i < j /\ OneEpoch(i, j) /\ exp_hist[i].alert # "none" =>
            exp_hist[j].alert # exp_hist[i].alert

\* C14 amended: within one expiration epoch each alert kind is emitted at most
\* once over the runs between which the store was not dropped for its age.
C14_OncePerEpoch ==
    \A i, j \in 1..Len(exp_hist) :
        /\ i < j
        /\ OneEpoch(i, j)
        /\ \A k \in (i + 1)..j : ~exp_hist[k].reset
        /\ exp_hist[i].alert # "none"
        => exp_hist[j].alert # exp_hist[i].alert

\* C14 witness: three runs of one epoch after the run that sent the expired alert,
\* none of them with a dropped store.
C14_Witness ==
    /\ Len(exp_hist) = 4
    /\ OneEpoch(1, 4)
    /\ exp_hist[1].alert = "expired"
    /\ \A k \in 2..4 : ~exp_hist[k].reset /\ exp_hist[k].alert = "none"

\* The text of the call when it is sent as one message: the header, a blank line,
\* the alerts joined by blank lines.
FullMessage ==
    tg_call.header \o <<"\n", "\n">> \o Join(tg_call.messages, <<"\n", "\n">>)

\* One of the bot.send_message calls of TelegramNotifier.send raised.
TransportFailed ==
    /\ tg_call.messages # <<>>
    /\ tg_call.fail_at \in 1..Len(SendTexts(tg_call.header, tg_call.messages, tg_limit))

\* C15 as stated: send never raises: it returns a boolean, True when every message
\* was delivered and False when a transport call failed, for every alert list.
C15_Original ==
    tg_result # "pending" =>
        /\ tg_result \in {"True", "False"}
        /\ (tg_result = "False") <=> TransportFailed

\* C15 amended: send never raises: for an empty alert list it returns False and
\* transmits nothing; otherwise it returns True when every message was delivered
\* and False when a transport call failed.
C15_SendNeverRaises ==
    tg_result # "pending" =>
        /\ tg_result \in {"True", "False"}
        /\ IF tg_call.messages = <<>>
           THEN tg_result = "False" /\ tg_sent = <<>>
           ELSE (tg_result = "False") <=> TransportFailed

\* C15 witness: the second bot.send_message of a call failed after the first was
\* delivered, and send returned False.
C15_Witness ==
    /\ tg_call.fail_at = 2
    /\ Len(tg_sent) = 1
    /\ tg_result = "False"

\* The items of a transmitted text: its parts between blank lines.
Items(text) ==
    Split(text, <<"\n", "\n">>)

RECURSIVE Flatten(_)
Flatten(seqs) ==
    IF seqs = <<>> THEN <<>> ELSE Head(seqs) \o Flatten(Tail(seqs))

\* The alert texts carried by the transmitted texts, in the order of transmission:
\* their items, without the header at the start of the first text.
Carried(sent, header) ==
    LET items == Flatten([k \in 1..Len(sent) |-> Items(sent[k])])
    IN  IF items # <<>> /\ items[1] = header THEN Tail(items) ELSE items

\* C16: batch round trip: when the alerts of a send call do not fit in one
\* message and no transport call fails, the alert texts carried by the transmitted
\* messages, in the order of transmission, are the alerts of the call in their
\* order, each once.  For the notifier of Main.py the same holds when no alert is
\* itself longer than the limit.
C16_BatchRoundTrip ==
    /\ tg_result = "True" /\ Len(FullMessage) > tg_limit =>
           Carried(tg_sent, tg_call.header) = tg_call.messages
    /\ /\ legacy_tg_result = "None"
       /\ tg_call.fail_at = 0
       /\ tg_call.messages # <<>>
       /\ Len(FullMessage) > tg_limit
       /\ \A i \in 1..Len(tg_call.messages) : Len(tg_call.messages[i]) <= tg_limit
       => Carried(legacy_tg_sent, tg_call.header) = tg_call.messages

\* C16 witness: three alerts were transmitted in three or more messages by both
\* notifiers.
C16_Witness ==
    /\ tg_result = "True"
    /\ legacy_tg_result = "None"
    /\ tg_call.fail_at = 0
    /\ Len(tg_call.messages) = 3
    /\ \A i \in 1..3 : Len(tg_call.messages[i]) <= tg_limit
    /\ Len(tg_sent) >= 3
    /\ Len(legacy_tg_sent) >= 3

\* The call has an alert that is longer than the limit.
HasOversizedAlert ==
    \E i \in 1..Len(tg_call.messages) : Len(tg_call.messages[i]) > tg_limit

\* C17 as stated: an alert longer than the limit is transmitted as several
\* messages split at line boundaries: none of the transmitted messages is longer
\* than the limit, and their texts rejoined are the text of the alert.
C17_Original ==
    tg_result = "True" /\ HasOversizedAlert =>
        /\ \A k \in 1..Len(tg_sent) : Len(tg_sent[k]) <= tg_limit
        /\ Len(tg_sent) > Len(tg_call.messages)
        /\ Join(tg_sent, <<"\n">>) =
               Join(<<tg_call.header>> \o tg_call.messages, <<"\n">>)

\* C18: when the header, a blank line and the alerts joined by blank lines are
\* together not longer than message_limit, send transmits exactly one message, and
\* it is this text (for a call with at least one alert whose bot.send_message
\* succeeds).
C18_SingleMessage ==
    tg_result = "True" /\ Len(FullMessage) <= tg_limit =>
        tg_sent = <<FullMessage>>

\* C18 witness: a call with two alerts whose text has exactly the length of the
\* limit was transmitted.
C18_Witness ==
    /\ tg_result = "True"
    /\ Len(tg_call.messages) = 2
    /\ Len(FullMessage) = tg_limit
    /\ Len(tg_sent) = 1

\* The header is the first item of the first message and no item of another one.
HeaderOnlyFirst ==
    /\ Items(tg_sent[1])[1] = tg_call.header
    /\ \A k \in 2..Len(tg_sent) :
           \A j \in 1..Len(Items(tg_sent[k])) : Items(tg_sent[k])[j] # tg_call.header

\* C19 as stated: when the full text is longer than the limit, send packs
\* greedily: a message is closed exactly when the message with the next alert
\* appended (after a blank line) would be longer than the limit; every alert lies
\* whole in one message, in order; the header is only at the start of the first
\* message.
C19_Original ==
    tg_result = "True" /\ Len(FullMessage) > tg_limit =>
        /\ HeaderOnlyFirst
        /\ Carried(tg_sent, tg_call.header) = tg_call.messages
        /\ \A k \in 1..Len(tg_sent) :
               Len(Items(tg_sent[k])) >= 2 => Len(tg_sent[k]) <= tg_limit
        /\ \A k \in 1..(Len(tg_sent) - 1) :
               Len(tg_sent[k]) + 2 + Len(Items(tg_sent[k + 1])[1]) > tg_limit

\* C19 amended: the same with the length the code counts: the buffer holds the
\* header and each alert followed by a blank line, and it is flushed exactly when
\* the buffer with the next alert and the blank line after it would be longer than
\* the limit, that is when the message would be longer than the limit less 2.
C19_GreedyPacking ==
    tg_result = "True" /\ Len(FullMessage) > tg_limit =>
        /\ HeaderOnlyFirst
        /\ Carried(tg_sent, tg_call.header) = tg_call.messages
        /\ \A k \in 1..Len(tg_sent) :
               Len(Items(tg_sent[k])) >= 2 => Len(tg_sent[k]) + 2 <= tg_limit
        /\ \A k \in 1..(Len(tg_sent) - 1) :
               Len(tg_sent[k]) + 2 + Len(Items(tg_sent[k + 1])[1]) + 2 > tg_limit

\* C19 witness: three alerts in two messages: the first message has the header and
\* two alerts, the second message the third alert.
C19_Witness ==
    /\ tg_result = "True"
    /\ Len(FullMessage) > tg_limit
    /\ Len(tg_call.messages) = 3
    /\ Len(tg_sent) = 2
    /\ Len(Items(tg_sent[1])) = 3

\* The position of the product id in the list of the last run.
Pos(id) ==
    CHOOSE i \in 1..Len(products) : products[i].id = id

\* The ids of the products of the last run for which the stock checker, and the
\* expiration checker, decided on an alert.
StockAlerted ==
    {p.id : p \in {q \in CheckedProducts :
                      StockDecision(q, Get(stock_before, q.id, EmptyDict)) # None}}

ExpAlerted ==
    {p.id : p \in {q \in ExpCheckedProducts :
                      ExpCheckProduct(q, exp_before, now, alert_days).alert # None}}

\* The send calls sent are one call per category of the alerted products, in the
\* order of the categories' first alerted product, each with the alerts of its
\* category in the order of the product list.
DispatchedInOrder(sent, alerted) ==
    /\ \A i \in 1..Len(sent) : sent[i].alerts # <<>>
    /\ \A i, j \in 1..Len(sent) : i < j => sent[i].group_path # sent[j].group_path
    /\ \A id \in alerted :
           \E i \in 1..Len(sent) : sent[i].group_path = ProductOf(products, id).group_path
    /\ \A i \in 1..Len(sent) :
           /\ {sent[i].alerts[j].id : j \in 1..Len(sent[i].alerts)} =
                  {id \in alerted : ProductOf(products, id).group_path = sent[i].group_path}
           /\ \A j, k \in 1..Len(sent[i].alerts) :
                  j < k => Pos(sent[i].alerts[j].id) < Pos(sent[i].alerts[k].id)
    /\ \A i, j \in 1..Len(sent) :
           i < j => Pos(sent[i].alerts[1].id) < Pos(sent[j].alerts[1].id)

\* C20: in one checker run send is called exactly once for each category path
\* that has an alert and never for a category without alerts; the categories are
\* dispatched in the order of their first alert, and the alerts of a category are
\* in the order in which the product list has their products.
C20_DispatchPerCategory ==
    /\ DispatchedInOrder(stock_sent, StockAlerted)
    /\ DispatchedInOrder(exp_sent, ExpAlerted)

\* C20 witness: a run whose products alternate between two categories: the stock
\* checker sent the first and the third product's alerts in one call, before the
\* call with the second product's alert.
C20_Witness ==
    /\ Len(products) = 3
    /\ Len(stock_sent) = 2
    /\ Len(exp_sent) = 2
    /\ Len(stock_sent[1].alerts) = 2
    /\ stock_sent[1].alerts[1].id = products[1].id
    /\ stock_sent[1].alerts[2].id = products[3].id
    /\ stock_sent[2].alerts[1].id = products[2].id

\* ------------------------------------------- the cycle of the scheduler, observed

LastStep ==
    sched_steps[Len(sched_steps)]

\* The cycle run() is in has awaited step, and it ended with outcome.
StepEnded(step, outcome) ==
    \E i \in 1..Len(sched_steps) :
        sched_steps[i].step = step /\ sched_steps[i].outcome = outcome

Sends(io) ==
    SelectSeq(io, LAMBDA c : c.op = "send")

Saves(io) ==
    SelectSeq(io, LAMBDA c : c.op = "save")

\* The calls io of a run that was handed alerts_by_group sent: one send per
\* category, in order, none twice, then exactly one save, which is the last call.
SavedOnceAfterSends(io, sent) ==
    /\ Len(Saves(io)) = 1
    /\ io[Len(io)].op = "save"
    /\ Len(Sends(io)) = Len(sent)
    /\ \A i \in 1..Len(sent) :
           /\ io[i].op = "send"
           /\ io[i].group_path = sent[i].group_path
           /\ io[i].result \in {"True", "False"}

\* C21: a run of StockChecker.process, and of ExpirationChecker.process, that
\* returns saves the store exactly once, after every per-category send call has
\* returned; a send that returned False is not made again and rolls no record
\* back: the saved store is what the checks computed from the loaded store,
\* whatever the sends returned.
C21_SaveOncePerRun ==
    /\ StepEnded("stock", "ok") =>
           /\ SavedOnceAfterSends(stock_io, stock_sent)
           /\ stock_store = StockProcess(AllAsNumbers(sched_products), stock_before).cache
    /\ StepEnded("expiration", "ok") =>
           /\ SavedOnceAfterSends(exp_io, exp_sent)
           /\ exp_store = ExpProcess(AllAsNumbers(sched_products), exp_before,
                                     DispatchNow, alert_days).cache

\* C21 witness: a stock run with two categories whose first send returned False
\* and whose second returned True; it saved once, and the store has the records
\* of both products.
C21_Witness ==
    /\ StepEnded("stock", "ok")
    /\ Len(stock_io) = 3
    /\ stock_io[1].result = "False"
    /\ stock_io[2].result = "True"
    /\ stock_io[3].op = "save"
    /\ stock_before = EmptyDict
    /\ DOMAIN stock_store = {"P1", "P2"}

\* C22: each cycle of CheckerScheduler.run is sequential.  run() awaits one call
\* at a time; the calls of a cycle are the fetch, then the stock check only after
\* the fetch has returned products, then the expiration check only after the
\* stock check has returned, then the sleep as the last one.
C22_SequentialCycle ==
    /\ \A i \in 1..Len(sched_steps) :
           /\ sched_steps[i].step = "fetch" <=> i = 1
           /\ sched_steps[i].step = "stock" =>
                  i = 2 /\ sched_steps[1] = Step("fetch", "ok")
           /\ sched_steps[i].step = "expiration" =>
                  i = 3 /\ sched_steps[2] = Step("stock", "ok")
           /\ sched_steps[i].step = "sleep" => i = Len(sched_steps) /\ i > 1
    /\ sched_pc = "stock" => LastStep = Step("fetch", "ok")
    /\ sched_pc = "expiration" => LastStep = Step("stock", "ok")
    /\ sched_pc = "sleep" => sched_steps # <<>> /\ LastStep.step # "sleep"
    /\ sched_pc = "sleep" /\ StepEnded("stock", "ok") => LastStep.step = "expiration"

\* C22 witness: a cycle in which the fetch, the stock check, the expiration check
\* and the sleep ended one after the other.
C22_Witness ==
    sched_steps = <<Step("fetch", "ok"), Step("stock", "ok"),
                    Step("expiration", "ok"), Step("sleep", "ok")>>

\* C23: when fetching the product list fails, no checker is called in that cycle
\* and no step of the cycle changes a store; run() sleeps and then fetches again.
\* The list a checker is called with is built from all the rows the API holds,
\* never from the rows of an attempt that failed.
C23_FetchFailure ==
    /\ [](StepEnded("fetch", "failed") =>
              /\ \A i \in 1..Len(sched_steps) :
                     sched_steps[i].step \in {"fetch", "sleep"}
              /\ sched_pc \in {"sleep", "fetch", "exited"}
              /\ sched_pc = "sleep" \/ ~sched_running \/ LastStep.step = "sleep"
              /\ LastStep = Step("sleep", "ok") /\ sched_running => sched_pc = "fetch")
    /\ [](StepEnded("fetch", "ok") => sched_products = BuildProducts(sched_rows))
    /\ [](sched_pc \in {"stock", "expiration"} => StepEnded("fetch", "ok"))
    /\ [][StepEnded("fetch", "failed")' =>
              stock_store' = stock_store /\ exp_store' = exp_store]_vars

\* C23 witness: the second cycle's fetch failed after the first cycle had filled
\* both stores; run() slept and is about to fetch again.
C23_Witness ==
    /\ sched_steps = <<Step("fetch", "failed"), Step("sleep", "ok")>>
    /\ sched_pc = "fetch"
    /\ Len(sched_rows) = 3
    /\ stock_store # EmptyDict
    /\ exp_store # EmptyDict

\* The products of the cycle that the stock checker can evaluate and that are due
\* an alert, given the store the stock run loaded.
DueStockAlert ==
    {sched_products[j].id : j \in {k \in 1..Len(sched_products) :
        LET p == sched_products[k]
        IN  /\ ~StockTypeError(p)
            /\ needs_stock_check(AsNumbers(p))
            /\ StockDecision(AsNumbers(p), Get(stock_before, p.id, EmptyDict)) # None}}

\* C24 as stated: a malformed product record is skipped individually.  Whenever
\* the stock check of a cycle was not interrupted, it sent the alerts of every
\* well-formed product that was due one and went on to save its store.
C24_Original ==
    \A i \in 1..Len(sched_steps) :
        sched_steps[i].step = "stock" /\ sched_steps[i].outcome \in {"ok", "raise"} =>
            /\ stock_io # <<>>
            /\ stock_io[Len(stock_io)].op = "save"
            /\ \A id \in DueStockAlert : AlertsOf(stock_sent, id) # {}

\* C25 as stated: after a call of the cycle ran into the deadline of the cycle,
\* run() sleeps before it begins the next cycle (unless stop() was called).
C25_Original ==
    \A i \in 1..Len(sched_steps) :
        sched_steps[i].outcome = "timeout" =>
            /\ i = Len(sched_steps) => sched_pc = "sleep" \/ ~sched_running
            /\ i < Len(sched_steps) => sched_steps[i + 1].step = "sleep"

\* C26 as stated: when run() has exited because a checker run was cancelled, the
\* store holds what that run had computed in memory.
C26_Original ==
    sched_pc = "exited" /\ sched_steps # <<>> /\ LastStep.outcome = "cancel" =>
        /\ LastStep.step = "stock" => stock_store = stock_memory
        /\ LastStep.step = "expiration" => exp_store = exp_memory

\* C27: an exception raised by a step of a cycle (a TypeError or a failing save
\* in the stock check, a failing save in the expiration check; _fetch_products
\* turns its own into []) is caught in run(): no further check of the cycle is
\* called, run() sleeps as after any cycle and then begins another cycle.  run()
\* exits only when it was cancelled or stop() was called.
C27_ExceptionCaught ==
    /\ \A i \in 1..Len(sched_steps) :
           sched_steps[i].outcome \in {"raise", "failed"} =>
               /\ i = Len(sched_steps) => sched_pc = "sleep" \/ ~sched_running
               /\ i < Len(sched_steps) =>
                      i + 1 = Len(sched_steps) /\ sched_steps[i + 1].step = "sleep"
               /\ i < Len(sched_steps) /\ LastStep.outcome = "ok" /\ sched_running =>
                      sched_pc = "fetch"
    /\ sched_pc = "exited" =>
           ~sched_running \/ (sched_steps # <<>> /\ LastStep.outcome = "cancel")

\* C27 witness: the stock check of a cycle raised; the expiration check was not
\* called, run() slept and is about to fetch again.
C27_Witness ==
    /\ sched_steps = <<Step("fetch", "ok"), Step("stock", "raise"), Step("sleep", "ok")>>
    /\ sched_pc = "fetch"
    /\ sched_running

\* ------------------------------------------------------ the store's file, observed

\* The age of the file the last load found, at the time of that load.
LoadedAge ==
    cache_clock - cache_loaded.before.mtime

\* What a stock run sends for product p when it has no record of it.
ColdStartKind(p) ==
    IF ~needs_stock_check(p) THEN "none"
    ELSE IF p.stock <= 0 THEN "zero"
    ELSE IF p.stock <= p.min_balance[1] THEN "min"
    ELSE "none"

\* C28: a store whose file cannot be decoded or cannot be opened is loaded as the
\* empty store: load does not raise and returns {}, and the stock run that loaded
\* it treats its product as a first sighting, whatever record the file held: it
\* alerts by the quantity alone and saves a store with that product's record only.
C28_CorruptStoreIsEmpty ==
    cache_loaded.called /\ cache_loaded.before.exists
        /\ cache_loaded.before.kind # "json" =>
            /\ ~cache_loaded.raised
            /\ cache_loaded.data = EmptyDict
            /\ cache_loaded.by = "process" =>
                   /\ stock_before = EmptyDict
                   /\ AlertKind(stock_sent, products[1].id) = ColdStartKind(products[1])
                   /\ cache_file.exists
                   /\ cache_file.kind = "json"
                   /\ needs_stock_check(products[1]) =>
                          cache_file.data = Put(EmptyDict, products[1].id,
                                                StockRecord(products[1]))

\* C28 witness: the file held the record of an out-of-stock product that had been
\* reported and was then garbled; the next run, within the reset age, alerted for
\* the product again.
C28_Witness ==
    /\ cache_loaded.called
    /\ cache_loaded.by = "process"
    /\ cache_loaded.before.exists
    /\ cache_loaded.before.kind = "garbled"
    /\ LoadedAge <= CACHE_RESET_DAYS * TicksPerDay
    /\ "P1" \in DOMAIN cache_loaded.before.data
    /\ cache_loaded.before.data["P1"].zero_reported
    /\ AlertKind(stock_sent, "P1") = "zero"

\* C29: when the file of the store was last modified more than max_age_days ago,
\* load returns the empty store and removes the file; when it was not, load
\* returns the records of the file as they are and leaves the file alone.  What
\* load returns is the whole store or nothing.
C29_AgeReset ==
    cache_loaded.called /\ cache_loaded.before.exists =>
        /\ LoadedAge > CACHE_RESET_DAYS * TicksPerDay =>
               /\ cache_loaded.data = EmptyDict
               /\ cache_loaded.by = "load" => ~cache_file.exists
        /\ LoadedAge <= CACHE_RESET_DAYS * TicksPerDay
               /\ cache_loaded.before.kind = "json" =>
               /\ cache_loaded.data = cache_loaded.before.data
               /\ cache_loaded.by = "load" => cache_file = cache_loaded.before
        /\ cache_loaded.data \in {EmptyDict, cache_loaded.before.data}

\* C29 witness: a file with two records, one tick older than max_age_days: load
\* returned {} and the file is gone.
C29_Witness ==
    /\ cache_loaded.called
    /\ cache_loaded.by = "load"
    /\ cache_loaded.before.exists
    /\ DOMAIN cache_loaded.before.data = {"P1", "P2"}
    /\ LoadedAge = CACHE_RESET_DAYS * TicksPerDay + 1
    /\ cache_loaded.data = EmptyDict
    /\ ~cache_file.exists

\* ------------------------------------------------------------ pacing, observed

\* C30 as stated: between any two consecutive messages handed to the transport
\* during one checker run the run sleeps.
C30_Original ==
    \A i \in 1..(Len(pace_trace) - 1) :
        pace_trace[i].op = "send_message" => pace_trace[i + 1].op = "sleep"

\* ------------------------------------------------ one cycle at a time, observed

\* The run whose calls are io has made its save call, and the call has returned
\* or raised.
SaveCompleted(io) ==
    io # <<>> /\ io[Len(io)].op = "save"

ExpFlags == {"was_expired", "was_notified_7_days", "was_notified_3_days"}

\* The run evaluated p, and the record it found for p has the date p has now.
EpochGoesOn(p) ==
    needs_expiration_check(p) /\ SameEpoch(p)

\* C34: within one expiration epoch _check_product never turns a set flag back to
\* false: every flag set in the record a run found is set in the record it
\* leaves, and the date stays.  A run that sends no alert for a product whose
\* date is the date of its record leaves the record exactly as it was.
C34_FlagsNeverCleared ==
    \A i \in 1..Len(products) :
        LET p == products[i]
        IN  EpochGoesOn(p) =>
                /\ p.id \in DOMAIN exp_store
                /\ exp_store[p.id]["expiration_date"] = exp_before[p.id]["expiration_date"]
                /\ \A f \in ExpFlags :
                       Get(exp_before[p.id], f, FALSE) => Get(exp_store[p.id], f, FALSE)
                /\ AlertsOf(exp_sent, p.id) = {} => exp_store[p.id] = exp_before[p.id]

\* C34 witness: a run found the record of a product with the 7-day flag set and
\* the same date, sent the 3-day alert, and left a record with both flags.
C34_Witness ==
    \E i \in 1..Len(products) :
        LET p == products[i]
        IN  /\ EpochGoesOn(p)
            /\ Get(exp_before[p.id], "was_notified_7_days", FALSE)
            /\ ~Get(exp_before[p.id], "was_notified_3_days", FALSE)
            /\ AlertTier(exp_sent, p.id) = "near3"
            /\ Get(exp_store[p.id], "was_notified_7_days", FALSE)
            /\ Get(exp_store[p.id], "was_notified_3_days", FALSE)

\* ------------------------------------------ the messages of a batch, observed

\* The text carries at least one of the alerts of the call.
CarriesAlert(text) ==
    \E j \in 1..Len(Items(text)) :
        \E i \in 1..Len(tg_call.messages) : Items(text)[j] = tg_call.messages[i]

\* C36 as stated: every message _send_batched hands to the transport contains the
\* text of at least one alert; none is the header alone, none is empty.
C36_Original ==
    tg_result # "pending" /\ Len(FullMessage) > tg_limit =>
        \A k \in 1..Len(tg_sent) :
            /\ tg_sent[k] # <<>>
            /\ tg_sent[k] # Strip(tg_call.header)
            /\ CarriesAlert(tg_sent[k])

\* ------------------------------------------ a failing transport, observed

\* The texts send is to transmit for call i of the run.
CallTexts(i) ==
    SendTexts(pace_calls[i].header, pace_calls[i].messages, tg_limit)

\* The transport call chosen to fail for call i is one that call i makes.
FailsInCall(i) ==
    dlv_fails[i] \in 1..Len(CallTexts(i))

\* C35: when a transport call fails while send delivers the messages of a
\* category, the messages of that category before it are the only ones
\* transmitted for it and send returns False; the run still makes the send call
\* of every later category, each transmitting all its messages unless its own
\* transport fails, and the run still saves the store.
C35_FailedSendGoesOn ==
    dlv_log.called =>
        /\ dlv_log.outcome = "ok"
        /\ dlv_log.saved
        /\ Len(dlv_log.sends) = Len(pace_calls)
        /\ \A i \in 1..Len(pace_calls) :
               IF FailsInCall(i)
               THEN /\ dlv_log.sends[i].result = "False"
                    /\ dlv_log.sends[i].sent = SubSeq(CallTexts(i), 1, dlv_fails[i] - 1)
               ELSE /\ dlv_log.sends[i].result = "True"
                    /\ dlv_log.sends[i].sent = CallTexts(i)

\* C35 witness: the first category has three messages and the transport failed
\* on the second; the second category was sent whole, and the store was saved.
C35_Witness ==
    /\ dlv_log.called
    /\ Len(pace_calls) = 2
    /\ Len(CallTexts(1)) = 3
    /\ dlv_fails[1] = 2
    /\ dlv_fails[2] = 0
    /\ Len(dlv_log.sends[1].sent) = 1
    /\ dlv_log.sends[1].result = "False"
    /\ dlv_log.sends[2].sent = CallTexts(2)
    /\ dlv_log.sends[2].result = "True"
    /\ dlv_log.saved

\* ------------------------------------------- the attempts of a fetch, observed

\* The page requests of an attempt that completes: one per full page, and the
\* request that finds a page that is not full.
PageRequests(rows) ==
    Len(rows) \div PageLimit + 1

\* Attempt a of the call fails: the request chosen to fail is one it makes.
AttemptFails(a) ==
    fetch_plan[a] \in 1..PageRequests(fetch_rows)

\* C39: fetch_all_products makes at most retry_count attempts, a further one only
\* after the one before has failed.  It returns the list of the first attempt
\* that completes: the rows of every page once, in page order, none of them from
\* a failed attempt.  It raises exactly when every attempt has failed, after the
\* last one.
C39_FetchAttempts ==
    fetch_out.called =>
        /\ fetch_out.attempts \in 1..retry_count
        /\ \A a \in 1..(fetch_out.attempts - 1) : AttemptFails(a)
        /\ fetch_out.raised <=> \A a \in 1..retry_count : AttemptFails(a)
        /\ fetch_out.raised => fetch_out.attempts = retry_count
        /\ ~fetch_out.raised =>
               /\ ~AttemptFails(fetch_out.attempts)
               /\ fetch_out.products = fetch_rows

\* C39 witness: five rows in three pages; the first attempt failed on its third
\* request and the second on its second; the third returned the five rows.
C39_Witness ==
    /\ fetch_out.called
    /\ Len(fetch_rows) = 5
    /\ fetch_plan = <<3, 2, 0>>
    /\ fetch_out.attempts = 3
    /\ ~fetch_out.raised
    /\ fetch_out.products = FetchAllRows

\* --------------------------------------------------- stop() and run(), observed

\* stop() has been called since run() began: run() sets _running, only stop()
\* clears it.
Stopped ==
    sched_pc # "idle" /\ ~sched_running

\* run() awaits the fetch of a cycle that the model does not let end.
AtLastCycle ==
    sched_pc = "fetch" /\ sched_cycle >= MaxCycles

\* C38: after stop() has been called while run() is in its loop, run() begins no
\* cycle and no sleep: it goes on only with the calls of the cycle it is in, or
\* ends the sleep it is in, and then returns.
C38_StopEndsRun ==
    /\ [][Stopped =>
              /\ sched_pc' = "fetch" => sched_pc = "fetch"
              /\ sched_pc' = "sleep" => sched_pc = "sleep"
              /\ sched_pc # "fetch" => sched_cycle' = sched_cycle
              /\ sched_pc = "sleep" => sched_pc' \in {"sleep", "exited"}
              /\ sched_pc = "exited" => sched_pc' = "exited"
              /\ ~sched_running']_vars
    /\ (Stopped /\ ~AtLastCycle) ~> (sched_pc = "exited")

\* C38 witness: stop() was called during the stock check of a cycle; the
\* expiration check of the cycle was still made, and run() returned without a
\* sleep.
C38_Witness ==
    /\ sched_pc = "exited"
    /\ ~sched_running
    /\ sched_steps = <<Step("fetch", "ok"), Step("stock", "ok"), Step("expiration", "ok")>>

\* ------------------------------------------------- the registration, observed

\* Handler h is between the receipt of its message and its end: it awaits
\* create_counterparty, the answer or the sleep before the next attempt.
InProgress(h) ==
    reg_chat[h].pc \in {"create", "answer", "sleep"}

C37_Original ==
    \A h1, h2 \in ChatHandlers :
        (/\ h1 # h2
         /\ InProgress(h1)
         /\ InProgress(h2)
         /\ reg_chat[h1].phone = reg_chat[h2].phone)
            => reg_chat[h1].requests + reg_chat[h2].requests <= 1

====
